---- MODULE Spec2Model ----
(***************************************************************************)
(* fsql: the field metadata cache (cache.go), the insert/update/select     *)
(* statement builders (orm.go) and the filter/sort compiler (filters.go).  *)
(*                                                                         *)
(* Go strings that the code only copies are TLA+ strings.  Go strings that *)
(* the code splits, trims, tests for a prefix or changes the case of are   *)
(* sequences of tokens (one-character or longer strings); Text(s) is the   *)
(* Go string such a sequence stands for.  Statement text is a sequence of  *)
(* tokens as well, so that the clauses of a statement can be told apart.   *)
(***************************************************************************)
EXTENDS Integers, Sequences, FiniteSets, TLC

VARIABLES cache, pend, inp, res

vars == <<cache, pend, inp, res>>

(***************************************************************************)
(* Bounds of the model.                                                    *)
(***************************************************************************)
NumCallers == 2
MaxEntries == 2
MaxJoins == 2
MaxFields == 2
MaxCount == 12

Callers == 1..NumCallers

(***************************************************************************)
(* Strings.                                                                *)
(***************************************************************************)
RECURSIVE Text(_)
Text(s) == IF s = <<>> THEN "" ELSE Head(s) \o Text(Tail(s))

RECURSIVE Split(_, _)
Split(s, sep) ==
  IF \A i \in 1..Len(s) : s[i] # sep THEN <<s>>
  ELSE LET i == CHOOSE j \in 1..Len(s) :
                  s[j] = sep /\ \A k \in 1..(j - 1) : s[k] # sep
       IN <<SubSeq(s, 1, i - 1)>> \o Split(SubSeq(s, i + 1, Len(s)), sep)

TrimSuffix(s, suffix) ==
  IF Len(s) > 0 /\ s[Len(s)] = suffix THEN SubSeq(s, 1, Len(s) - 1) ELSE s

HasPrefix(s, prefix) == Len(s) > 0 /\ s[1] = prefix

\* the letters of the model's strings and their lower-case forms
LowerOf == [c \in {"A", "B", "C", "D", "E", "G", "L", "N", "O", "S", "U"} |->
              CASE c = "A" -> "a" [] c = "B" -> "b" [] c = "C" -> "c"
                [] c = "D" -> "d" [] c = "E" -> "e" [] c = "G" -> "g"
                [] c = "L" -> "l" [] c = "N" -> "n" [] c = "O" -> "o"
                [] c = "S" -> "s" [] c = "U" -> "u"]

ToLowerChar(c) == IF c \in DOMAIN LowerOf THEN LowerOf[c] ELSE c

ToUpperChar(c) ==
  IF \E u \in DOMAIN LowerOf : LowerOf[u] = c
  THEN CHOOSE u \in DOMAIN LowerOf : LowerOf[u] = c
  ELSE c

ToLower(s) == [i \in 1..Len(s) |-> ToLowerChar(s[i])]

ToUpper(s) == [i \in 1..Len(s) |-> ToUpperChar(s[i])]

(***************************************************************************)
(* Go maps are functions with a finite domain.                             *)
(***************************************************************************)
EmptyMap == <<>>

MapSet(m, k, v) == [x \in DOMAIN m \cup {k} |-> IF x = k THEN v ELSE m[x]]

\* the orders in which a range loop may visit the keys of a map
Orders(m) ==
  {o \in [1..Cardinality(DOMAIN m) -> DOMAIN m] :
     \A i, j \in DOMAIN o : i # j => o[i] # o[j]}

\* the map m without the keys outside K
Restrict(m, K) == [x \in DOMAIN m \cap K |-> m[x]]

\* the maps with at most n entries, keys from K and values from V
MapsUpTo(K, V, n) ==
  UNION {[S -> V] : S \in {X \in SUBSET K : Cardinality(X) <= n}}

(***************************************************************************)
(* Go values of type interface{}: a dynamic type and the value's text.     *)
(***************************************************************************)
StrVal(tokens) == [k |-> "string", v |-> tokens]

IntVal(digits) == [k |-> "int", v |-> <<digits>>]

Values == {StrVal(<<"A", "b", "C">>), StrVal(<<"N", "U", "L", "L">>), IntVal("18")}

\* fmt.Sprintf("$%d", n)
Ph(n) == "$" \o ToString(n)

\* strings.Join over token sequences: the parts with sep between them
RECURSIVE JoinTokens(_, _)
JoinTokens(parts, sep) ==
  IF parts = <<>> THEN <<>>
  ELSE IF Len(parts) = 1 THEN parts[1]
  ELSE parts[1] \o <<sep>> \o JoinTokens(Tail(parts), sep)

(***************************************************************************)
(* Record shapes handed to InitModelTagCache: what reflect.TypeOf sees.    *)
(* A struct is its fields in declaration order with their db, dbMode and   *)
(* dbInsertValue tags; dbMode is a token sequence, "," being a token.      *)
(***************************************************************************)
Field(name, db, dbMode, dbInsertValue) ==
  [Name |-> name, db |-> db, dbMode |-> dbMode, dbInsertValue |-> dbInsertValue]

StructT ==
  [kind |-> "struct",
   fields |-> << Field("ID", "id", <<"i">>, ""),
                 Field("Name", "name", <<"i", ",", "u">>, ""),
                 Field("Note", "note", <<"i", ",", "u">>, "NULL"),
                 Field("Tag", "tag", <<"i", ",", "u">>, "x');--"),
                 Field("Secret", "secret", <<"s", ",", "i">>, ""),
                 Field("Realm", "r", <<"l">>, ""),
                 Field("Ignored", "-", <<"i">>, ""),
                 Field("Plain", "", <<>>, "") >>]

StructU ==
  [kind |-> "struct",
   fields |-> << Field("ID", "id", <<"i", ",", "u">>, ""),
                 Field("Name", "title", <<"u">>, ""),
                 Field("At", "at", <<"i">>, "NOW()"),
                 Field("Count", "count", <<>>, ""),
                 Field("Site", "w", <<"i", ",", "link">>, "") >>]

IntType == [kind |-> "int", fields |-> <<>>]

PtrTo(type) == [kind |-> "ptr", elem |-> type]

Models == {StructT, StructU, PtrTo(StructT), IntType}

Tables == {"t", "u"}

(***************************************************************************)
(* cache.go                                                                *)
(***************************************************************************)
RECURSIVE Elem(_)
Elem(type) == IF type.kind = "ptr" THEN Elem(type.elem) ELSE type

\* getModelType panics unless the dereferenced type is a struct
getModelTypePanics(model) == Elem(model).kind # "struct"

getModelType(model) == Elem(model)

modeFlags(dbMode) == {Text(part) : part \in {Split(dbMode, ",")[i] : i \in 1..Len(Split(dbMode, ","))}}

NewInfo ==
  [dbTagMap |-> EmptyMap, dbInsertValueMap |-> EmptyMap,
   dbFieldsSelect |-> <<>>, dbFieldsInsert |-> <<>>, dbFieldsUpdate |-> <<>>,
   dbFieldsSelectMap |-> {}, dbFieldsInsertMap |-> {}, dbFieldsUpdateMap |-> {},
   linkedFields |-> EmptyMap]

\* a variant that records a linked field and lists its column as well
AddField_LinkedListed(info, field) ==
  LET flags == modeFlags(field.dbMode)
      col == field.db
      linked == IF "l" \in flags \/ "link" \in flags
                  THEN [info EXCEPT !.linkedFields = MapSet(@, field.Name, col)] ELSE info
  IN IF col = "" \/ col = "-" THEN info
     ELSE IF "s" \in flags THEN [linked EXCEPT !.dbTagMap = MapSet(@, field.Name, col)]
     ELSE [linked EXCEPT
             !.dbTagMap = MapSet(@, field.Name, col),
             !.dbFieldsInsert = IF "i" \in flags THEN Append(@, col) ELSE @,
             !.dbFieldsInsertMap = IF "i" \in flags THEN @ \cup {col} ELSE @,
             !.dbInsertValueMap =
                IF "i" \in flags /\ field.dbInsertValue # ""
                THEN MapSet(@, col, field.dbInsertValue) ELSE @,
             !.dbFieldsUpdate = IF "u" \in flags THEN Append(@, col) ELSE @,
             !.dbFieldsUpdateMap = IF "u" \in flags THEN @ \cup {col} ELSE @,
             !.dbFieldsSelect = Append(@, col),
             !.dbFieldsSelectMap = @ \cup {col}]

\* a variant that puts a column at the head of its lists
AddField_Prepend(info, field) ==
  LET flags == modeFlags(field.dbMode)
      col == field.db
  IN IF col = "" \/ col = "-" THEN info
     ELSE IF "l" \in flags \/ "link" \in flags
       THEN [info EXCEPT !.linkedFields = MapSet(@, field.Name, col)]
     ELSE IF "s" \in flags
       THEN [info EXCEPT !.dbTagMap = MapSet(@, field.Name, col)]
     ELSE [info EXCEPT
             !.dbTagMap = MapSet(@, field.Name, col),
             !.dbFieldsInsert = IF "i" \in flags THEN <<col>> \o @ ELSE @,
             !.dbFieldsInsertMap = IF "i" \in flags THEN @ \cup {col} ELSE @,
             !.dbInsertValueMap =
                IF "i" \in flags /\ field.dbInsertValue # ""
                THEN MapSet(@, col, field.dbInsertValue) ELSE @,
             !.dbFieldsUpdate = IF "u" \in flags THEN <<col>> \o @ ELSE @,
             !.dbFieldsUpdateMap = IF "u" \in flags THEN @ \cup {col} ELSE @,
             !.dbFieldsSelect = <<col>> \o @,
             !.dbFieldsSelectMap = @ \cup {col}]

\* one iteration of the loop over the struct's fields
AddField(info, field) ==
  LET flags == modeFlags(field.dbMode)
      col == field.db
      isInsert == "i" \in flags
      isUpdate == "u" \in flags
  IN IF col = "" \/ col = "-" THEN info
     ELSE IF "l" \in flags \/ "link" \in flags
       THEN [info EXCEPT !.linkedFields = MapSet(@, field.Name, col)]
     ELSE IF "s" \in flags
       THEN [info EXCEPT !.dbTagMap = MapSet(@, field.Name, col)]
     ELSE [info EXCEPT
             !.dbTagMap = MapSet(@, field.Name, col),
             !.dbFieldsInsert = IF isInsert THEN Append(@, col) ELSE @,
             !.dbFieldsInsertMap = IF isInsert THEN @ \cup {col} ELSE @,
             !.dbInsertValueMap =
                IF isInsert /\ field.dbInsertValue # ""
                THEN MapSet(@, col, field.dbInsertValue) ELSE @,
             !.dbFieldsUpdate = IF isUpdate THEN Append(@, col) ELSE @,
             !.dbFieldsUpdateMap = IF isUpdate THEN @ \cup {col} ELSE @,
             !.dbFieldsSelect = Append(@, col),
             !.dbFieldsSelectMap = @ \cup {col}]

RECURSIVE BuildFrom(_, _)
BuildFrom(info, fields) ==
  IF fields = <<>> THEN info
  ELSE BuildFrom(AddField(info, Head(fields)), Tail(fields))

BuildModelInfo(model) == BuildFrom(NewInfo, getModelType(model).fields)

getModelInfo(tableName) == tableName \in DOMAIN cache

\* modelFieldsCache.Set
CacheSet(c, tableName, info) == MapSet(c, tableName, info)

RegResult(p, model, tableName, out) ==
  [op |-> "InitModelTagCache", caller |-> p, table |-> tableName,
   model |-> model, out |-> out]

\* a variant that resolves the model's type before the existence check
InitModelTagCacheBegin_TypeFirst(p, model, tableName) ==
  /\ p \notin DOMAIN pend
  /\ IF getModelTypePanics(model)
       THEN /\ res' = RegResult(p, model, tableName, "panic")
            /\ UNCHANGED <<cache, pend, inp>>
     ELSE IF getModelInfo(tableName)
       THEN /\ res' = RegResult(p, model, tableName, "already")
            /\ UNCHANGED <<cache, pend, inp>>
     ELSE /\ pend' = MapSet(pend, p, [table |-> tableName, model |-> model,
                                      info |-> BuildModelInfo(model)])
          /\ res' = RegResult(p, model, tableName, "built")
          /\ UNCHANGED <<cache, inp>>

\* a variant that puts an empty entry into the cache before it fills it
InitModelTagCacheBegin_StoreEmpty(p, model, tableName) ==
  /\ p \notin DOMAIN pend
  /\ IF getModelInfo(tableName)
       THEN /\ res' = RegResult(p, model, tableName, "already")
            /\ UNCHANGED <<cache, pend, inp>>
     ELSE IF getModelTypePanics(model)
       THEN /\ res' = RegResult(p, model, tableName, "panic")
            /\ UNCHANGED <<cache, pend, inp>>
     ELSE /\ pend' = MapSet(pend, p, [table |-> tableName, model |-> model,
                                      info |-> BuildModelInfo(model)])
          /\ cache' = CacheSet(cache, tableName, NewInfo)
          /\ res' = RegResult(p, model, tableName, "built")
          /\ UNCHANGED inp

\* a variant that stores an empty entry before the type check panics
InitModelTagCacheBegin_PanicLate(p, model, tableName) ==
  /\ p \notin DOMAIN pend
  /\ IF getModelInfo(tableName)
       THEN /\ res' = RegResult(p, model, tableName, "already")
            /\ UNCHANGED <<cache, pend, inp>>
     ELSE IF getModelTypePanics(model)
       THEN /\ cache' = CacheSet(cache, tableName, NewInfo)
            /\ res' = RegResult(p, model, tableName, "panic")
            /\ UNCHANGED <<pend, inp>>
     ELSE /\ pend' = MapSet(pend, p, [table |-> tableName, model |-> model,
                                      info |-> BuildModelInfo(model)])
          /\ res' = RegResult(p, model, tableName, "built")
          /\ UNCHANGED <<cache, inp>>

\* InitModelTagCache up to the point where the entry is built: the existence
\* check, the type check and the loop over the fields.  The entry is local to
\* the caller until the store.
InitModelTagCacheBegin(p, model, tableName) ==
  /\ p \notin DOMAIN pend
  /\ IF getModelInfo(tableName)
       THEN /\ res' = RegResult(p, model, tableName, "already")
            /\ UNCHANGED <<cache, pend, inp>>
     ELSE IF getModelTypePanics(model)
       THEN /\ res' = RegResult(p, model, tableName, "panic")
            /\ UNCHANGED <<cache, pend, inp>>
     ELSE /\ pend' = MapSet(pend, p, [table |-> tableName, model |-> model,
                                      info |-> BuildModelInfo(model)])
          /\ res' = RegResult(p, model, tableName, "built")
          /\ UNCHANGED <<cache, inp>>

\* InitModelTagCache's last statement: the store of the entry it built
InitModelTagCacheStore(p) ==
  /\ p \in DOMAIN pend
  /\ cache' = CacheSet(cache, pend[p].table, pend[p].info)
  /\ pend' = [q \in DOMAIN pend \ {p} |-> pend[q]]
  /\ res' = RegResult(p, pend[p].model, pend[p].table, "stored")
  /\ UNCHANGED inp

\* a reader looks a table up: modelFieldsCache.Get gives the entry that is
\* in the cache at this moment, or nothing
getModelInfoCall ==
  \E tableName \in Tables :
    /\ res' = [op |-> "getModelInfo", table |-> tableName, ok |-> getModelInfo(tableName),
               info |-> IF getModelInfo(tableName) THEN cache[tableName] ELSE NewInfo]
    /\ UNCHANGED <<cache, pend, inp>>

\* strings.ReplaceAll(s, `"`, ``) on the identifiers of the model
Unquoted == [s \in {"r\"x"} |-> "rx"]

StripQuotes(s) == IF s \in DOMAIN Unquoted THEN Unquoted[s] ELSE s

\* a variant that leaves the projection alias out
RenderField_NoProjectionAlias(tableName, aliasTableName, fieldName) ==
  IF aliasTableName # ""
  THEN "\"" \o StripQuotes(aliasTableName) \o "\".\"" \o StripQuotes(fieldName) \o "\""
  ELSE "\"" \o StripQuotes(tableName) \o "\".\"" \o StripQuotes(fieldName) \o "\""

\* getFieldsByMode, for a table that is in the cache and a valid mode
RenderField(tableName, aliasTableName, fieldName) ==
  IF aliasTableName # ""
  THEN "\"" \o StripQuotes(aliasTableName) \o "\".\"" \o StripQuotes(fieldName)
         \o "\" AS \"" \o StripQuotes(aliasTableName) \o "." \o fieldName \o "\""
  ELSE "\"" \o StripQuotes(tableName) \o "\".\"" \o StripQuotes(fieldName) \o "\""

\* a variant that takes any other mode for "select"
getFieldsByMode_DefaultSelect(tableName, mode, aliasTableName) ==
  IF ~getModelInfo(tableName)
    THEN [panic |-> "table name not initialized: " \o tableName]
  ELSE LET dbFields == CASE mode = "insert" -> cache[tableName].dbFieldsInsert
                         [] mode = "update" -> cache[tableName].dbFieldsUpdate
                         [] OTHER -> cache[tableName].dbFieldsSelect
       IN [panic |-> "",
           fields |-> [i \in 1..Len(dbFields) |->
                         RenderField(tableName, aliasTableName, dbFields[i])],
           fieldNames |-> dbFields]

getFieldsByMode(tableName, mode, aliasTableName) ==
  IF ~getModelInfo(tableName)
    THEN [panic |-> "table name not initialized: " \o tableName]
  ELSE IF mode \notin {"select", "insert", "update"}
    THEN [panic |-> "invalid mode"]
  ELSE LET dbFields == CASE mode = "select" -> cache[tableName].dbFieldsSelect
                         [] mode = "insert" -> cache[tableName].dbFieldsInsert
                         [] mode = "update" -> cache[tableName].dbFieldsUpdate
       IN [panic |-> "",
           fields |-> [i \in 1..Len(dbFields) |->
                         RenderField(tableName, aliasTableName, dbFields[i])],
           fieldNames |-> dbFields]

GetSelectFields(tableName, aliasTableName) ==
  getFieldsByMode(tableName, "select", aliasTableName)

GetInsertFields(tableName) == getFieldsByMode(tableName, "insert", "")

GetUpdateFields(tableName) == getFieldsByMode(tableName, "update", "")

GetInsertValues(tableName) ==
  IF ~getModelInfo(tableName)
    THEN [panic |-> "table name not initialized: " \o tableName]
  ELSE [panic |-> "", values |-> cache[tableName].dbInsertValueMap]

(***************************************************************************)
(* orm.go                                                                  *)
(***************************************************************************)
\* a variant that takes every registered default for a keyword literal
isSQLFunction_Any(value) == value = value

isSQLFunction(value) == value \in {"NOW()", "NULL", "true", "false", "DEFAULT"}

\* the caller's value, or a default that is no keyword literal, is bound to
\* the next placeholder
\* a variant that numbers every placeholder with the first number
BindNext_SameNumber(acc, field, value) ==
  [columns |-> Append(acc.columns, field),
   placeholders |-> Append(acc.placeholders, Ph(1)),
   queryValues |-> Append(acc.queryValues, value),
   counter |-> acc.counter + 1]

BindNext(acc, field, value) ==
  [columns |-> Append(acc.columns, field),
   placeholders |-> Append(acc.placeholders, Ph(acc.counter)),
   queryValues |-> Append(acc.queryValues, value),
   counter |-> acc.counter + 1]

Splice(acc, field, literal) ==
  [acc EXCEPT !.columns = Append(@, field), !.placeholders = Append(@, literal)]

\* a variant in which a registered default wins over the caller's value
InsertStep_DefaultFirst(acc, field, valuesMap, defaultValues) ==
  IF field \in DOMAIN defaultValues
    THEN IF isSQLFunction(defaultValues[field])
           THEN Splice(acc, field, defaultValues[field])
         ELSE BindNext(acc, field, StrVal(<<defaultValues[field]>>))
  ELSE IF field \in DOMAIN valuesMap
    THEN BindNext(acc, field, valuesMap[field])
  ELSE Splice(acc, field, "DEFAULT")

\* one iteration of the loop of GetInsertQuery over the insertable columns
InsertStep(acc, field, valuesMap, defaultValues) ==
  IF field \in DOMAIN valuesMap
    THEN BindNext(acc, field, valuesMap[field])
  ELSE IF field \in DOMAIN defaultValues
    THEN IF isSQLFunction(defaultValues[field])
           THEN Splice(acc, field, defaultValues[field])
         ELSE BindNext(acc, field, StrVal(<<defaultValues[field]>>))
  ELSE Splice(acc, field, "DEFAULT")

RECURSIVE InsertLoop(_, _, _, _)
InsertLoop(fields, valuesMap, defaultValues, acc) ==
  IF fields = <<>> THEN acc
  ELSE InsertLoop(Tail(fields), valuesMap, defaultValues,
                  InsertStep(acc, Head(fields), valuesMap, defaultValues))

\* the statement is kept as tokens: the head, the column list, the VALUES
\* list and the RETURNING clause, the lists joined with ","
GetInsertQuery(tableName, valuesMap, returning) ==
  IF GetInsertFields(tableName).panic # ""
    THEN [op |-> "GetInsertQuery", panic |-> GetInsertFields(tableName).panic]
  ELSE IF GetInsertValues(tableName).panic # ""
    THEN [op |-> "GetInsertQuery", panic |-> GetInsertValues(tableName).panic]
  ELSE LET fields == GetInsertFields(tableName).fieldNames
           defaultValues == GetInsertValues(tableName).values
           done == InsertLoop(fields, valuesMap, defaultValues,
                              [columns |-> <<>>, placeholders |-> <<>>,
                               queryValues |-> <<>>, counter |-> 1])
           query == <<"INSERT INTO \"", tableName, "\" (">>
                      \o JoinTokens([i \in 1..Len(done.columns) |-> <<done.columns[i]>>], ",")
                      \o <<") VALUES (">>
                      \o JoinTokens([i \in 1..Len(done.placeholders) |->
                                       <<done.placeholders[i]>>], ",")
                      \o <<")">>
       IN [op |-> "GetInsertQuery", panic |-> "",
           query |-> IF returning # ""
                       THEN query \o <<" RETURNING \"", returning, "\"">>
                     ELSE query,
           args |-> done.queryValues]

\* a variant that does not advance the placeholder counter
UpdateStep_NoIncrement(acc, field, valuesMap) ==
  IF field \in DOMAIN valuesMap
    THEN [setClauses |-> Append(acc.setClauses, <<field, " = ", Ph(acc.counter)>>),
          queryValues |-> Append(acc.queryValues, valuesMap[field]),
          counter |-> acc.counter]
  ELSE acc

\* one iteration of the loop of GetUpdateQuery over the updatable columns
UpdateStep(acc, field, valuesMap) ==
  IF field \in DOMAIN valuesMap
    THEN [setClauses |-> Append(acc.setClauses, <<field, " = ", Ph(acc.counter)>>),
          queryValues |-> Append(acc.queryValues, valuesMap[field]),
          counter |-> acc.counter + 1]
  ELSE acc

RECURSIVE UpdateLoop(_, _, _)
UpdateLoop(fields, valuesMap, acc) ==
  IF fields = <<>> THEN acc
  ELSE UpdateLoop(Tail(fields), valuesMap, UpdateStep(acc, Head(fields), valuesMap))

\* a variant without the check for an empty SET list
GetUpdateQuery_NoEmptyCheck(tableName, valuesMap, returning) ==
  IF GetUpdateFields(tableName).panic # ""
    THEN [op |-> "GetUpdateQuery", panic |-> GetUpdateFields(tableName).panic]
  ELSE LET fields == GetUpdateFields(tableName).fieldNames
           done == UpdateLoop(fields, valuesMap,
                              [setClauses |-> <<>>, queryValues |-> <<>>, counter |-> 1])
       IN IF returning \notin DOMAIN valuesMap
            THEN [op |-> "GetUpdateQuery", panic |-> "Primary key not found in valuesMap"]
          ELSE [op |-> "GetUpdateQuery", panic |-> "",
                query |-> <<"UPDATE \"", tableName, "\" SET ">>
                            \o JoinTokens(done.setClauses, ", ")
                            \o <<" WHERE \"", returning, "\" = ", Ph(done.counter),
                                 " RETURNING \"", returning, "\"">>,
                args |-> Append(done.queryValues, valuesMap[returning])]

GetUpdateQuery(tableName, valuesMap, returning) ==
  IF GetUpdateFields(tableName).panic # ""
    THEN [op |-> "GetUpdateQuery", panic |-> GetUpdateFields(tableName).panic]
  ELSE LET fields == GetUpdateFields(tableName).fieldNames
           done == UpdateLoop(fields, valuesMap,
                              [setClauses |-> <<>>, queryValues |-> <<>>, counter |-> 1])
       IN IF Len(done.setClauses) = 0
            THEN [op |-> "GetUpdateQuery", panic |-> "No fields to update"]
          ELSE IF returning \notin DOMAIN valuesMap
            THEN [op |-> "GetUpdateQuery", panic |-> "Primary key not found in valuesMap"]
          ELSE [op |-> "GetUpdateQuery", panic |-> "",
                query |-> <<"UPDATE \"", tableName, "\" SET ">>
                            \o JoinTokens(done.setClauses, ", ")
                            \o <<" WHERE \"", returning, "\" = ", Ph(done.counter),
                                 " RETURNING \"", returning, "\"">>,
                args |-> Append(done.queryValues, valuesMap[returning])]

\* the query builder: SelectBase keeps the table and drops its alias argument
SelectBase(table, alias) == [Table |-> table, Joins |-> <<>>]

Left(qb, table, alias, on) ==
  [qb EXCEPT !.Joins = Append(@, [Table |-> table, TableAlias |-> alias,
                                  JoinType |-> "LEFT JOIN", OnCondition |-> on])]

\* strings.Join(fragments, ","), each fragment and each comma one token
JoinFields(fragments) == JoinTokens([i \in 1..Len(fragments) |-> <<fragments[i]>>], ",")

\* a variant that puts the columns of a join before the columns it has
RECURSIVE BuildFields_Prepend(_, _)
BuildFields_Prepend(acc, joins) ==
  IF acc.panic # "" \/ joins = <<>> THEN acc
  ELSE LET sel == GetSelectFields(joins[1].Table, joins[1].TableAlias)
       IN IF sel.panic # "" THEN [panic |-> sel.panic, fields |-> <<>>]
          ELSE BuildFields_Prepend([panic |-> "",
                                    fields |-> JoinFields(sel.fields) \o <<", ">> \o acc.fields],
                                   Tail(joins))

\* the first loop of Build: fields += ", " + strings.Join(joinFields, ",");
\* a panic of GetSelectFields ends the call
RECURSIVE BuildFields(_, _)
BuildFields(acc, joins) ==
  IF acc.panic # "" \/ joins = <<>> THEN acc
  ELSE LET sel == GetSelectFields(joins[1].Table, joins[1].TableAlias)
       IN IF sel.panic # "" THEN [panic |-> sel.panic, fields |-> <<>>]
          ELSE BuildFields([panic |-> "",
                            fields |-> acc.fields \o <<", ">> \o JoinFields(sel.fields)],
                           Tail(joins))

\* one iteration of the second loop of Build
BuildJoin(join) ==
  LET table == IF join.TableAlias # ""
                 THEN <<"\"", join.Table, "\" AS \"", join.TableAlias, "\"">>
               ELSE <<"\"", join.Table, "\"">>
  IN <<join.JoinType, " ">> \o table \o <<" ON ", join.OnCondition>>

Build(qb) ==
  LET base == GetSelectFields(qb.Table, "")
      all == IF base.panic # "" THEN [panic |-> base.panic, fields |-> <<>>]
             ELSE BuildFields([panic |-> "", fields |-> JoinFields(base.fields)], qb.Joins)
      joins == [i \in 1..Len(qb.Joins) |-> BuildJoin(qb.Joins[i])]
  IN IF all.panic # "" THEN [panic |-> all.panic]
     ELSE [panic |-> "",
           query |-> <<"SELECT ">> \o all.fields \o <<" FROM \"", qb.Table, "\" ">>
                       \o JoinTokens(joins, " ")]

(***************************************************************************)
(* filters.go                                                              *)
(***************************************************************************)

\* pq.Array(value): one argument that holds the whole value
PqArray(value) == [k |-> "pq.Array(" \o value.k \o ")", v |-> value.v]

\* a variant whose $nin case holds the template of $in
getConditionString_NinAsIn(operator) ==
  CASE operator \in {"$prefix", "€prefix", "$suffix", "€suffix", "$like", "€like"} -> <<"LIKE ", "$%d">>
    [] operator = "$gt" -> <<"> ", "$%d">>
    [] operator = "$gte" -> <<">= ", "$%d">>
    [] operator = "$lt" -> <<"< ", "$%d">>
    [] operator = "$lte" -> <<"<= ", "$%d">>
    [] operator = "$ne" -> <<"!= ", "$%d">>
    [] operator \in {"$in", "$nin"} -> <<"= ANY(", "$%d", ")">>
    [] OTHER -> <<"= ", "$%d">>

\* the comparison templates; "$%d" is the verb that takes the counter
getConditionString(operator) ==
  CASE operator \in {"$prefix", "€prefix"} -> <<"LIKE ", "$%d">>
    [] operator \in {"$suffix", "€suffix"} -> <<"LIKE ", "$%d">>
    [] operator \in {"$like", "€like"} -> <<"LIKE ", "$%d">>
    [] operator = "$gt" -> <<"> ", "$%d">>
    [] operator = "$gte" -> <<">= ", "$%d">>
    [] operator = "$lt" -> <<"< ", "$%d">>
    [] operator = "$lte" -> <<"<= ", "$%d">>
    [] operator = "$ne" -> <<"!= ", "$%d">>
    [] operator = "$in" -> <<"= ANY(", "$%d", ")">>
    [] operator = "$nin" -> <<"!= ALL(", "$%d", ")">>
    [] operator \in {"$eq", "€eq"} -> <<"= ", "$%d">>
    [] OTHER -> <<"= ", "$%d">>

\* fmt.Sprintf(condition, argCounter)
Sprintf(format, n) == [i \in 1..Len(format) |-> IF format[i] = "$%d" THEN Ph(n) ELSE format[i]]

\* the field name and the operator token of a filter key
FieldNameOf(filterKey) == Text(Split(filterKey, "[")[1])

OperatorOf(filterKey) ==
  IF Len(Split(filterKey, "[")) > 1
  THEN TrimSuffix(Split(filterKey, "[")[2], "]")
  ELSE <<>>

\* a variant that wraps the column under the marker and binds the value as it is
Compile_NoLower(acc, t, dbField, operator, filterValue) ==
  LET conditionStr == getConditionString(Text(operator))
      condition == IF HasPrefix(operator, "€")
                     THEN <<"LOWER(\"", t, "\".", dbField, ") ">> \o conditionStr
                   ELSE <<"\"", t, "\".", dbField, " ">> \o conditionStr
  IN [conditions |-> Append(acc.conditions, Sprintf(condition, acc.argCounter)),
      args |-> Append(acc.args, IF Text(operator) \in {"$in", "$nin"} THEN PqArray(filterValue)
                                ELSE filterValue),
      argCounter |-> acc.argCounter + 1]

\* the condition and the argument of an entry whose field is known
Compile(acc, t, dbField, operator, filterValue) ==
  LET conditionStr == getConditionString(Text(operator))
      isArray == Text(operator) = "$in" \/ Text(operator) = "$nin"
      shouldLower == HasPrefix(operator, "€")
      condition == IF shouldLower
                     THEN <<"LOWER(\"", t, "\".", dbField, ") ">> \o conditionStr
                   ELSE <<"\"", t, "\".", dbField, " ">> \o conditionStr
      lowered == IF shouldLower /\ filterValue.k = "string"
                   THEN [filterValue EXCEPT !.v = ToLower(@)]
                 ELSE filterValue
  IN [conditions |-> Append(acc.conditions, Sprintf(condition, acc.argCounter)),
      args |-> Append(acc.args, IF isArray THEN PqArray(lowered) ELSE lowered),
      argCounter |-> acc.argCounter + 1]

\* a variant in which a skipped entry still takes a placeholder number
CondStep_SkipCounts(acc, t, dbTagMap, filterKey, filterValue) ==
  IF FieldNameOf(filterKey) \notin DOMAIN dbTagMap
    THEN [acc EXCEPT !.argCounter = @ + 1]
  ELSE Compile(acc, t, dbTagMap[FieldNameOf(filterKey)], OperatorOf(filterKey), filterValue)

\* a variant that compiles an unknown field under its own name
CondStep_NoLookup(acc, t, dbTagMap, filterKey, filterValue) ==
  IF FieldNameOf(filterKey) \notin DOMAIN dbTagMap
    THEN Compile(acc, t, FieldNameOf(filterKey), OperatorOf(filterKey), filterValue)
  ELSE Compile(acc, t, dbTagMap[FieldNameOf(filterKey)], OperatorOf(filterKey), filterValue)

\* one iteration of the loop of constructConditions over the filter entries
CondStep(acc, t, dbTagMap, filterKey, filterValue) ==
  IF FieldNameOf(filterKey) \notin DOMAIN dbTagMap
    THEN acc
  ELSE Compile(acc, t, dbTagMap[FieldNameOf(filterKey)], OperatorOf(filterKey), filterValue)

\* a variant that leaves the loop at the first entry it ignores
RECURSIVE CondLoop_StopAtUnknown(_, _, _, _, _)
CondLoop_StopAtUnknown(acc, t, dbTagMap, filters, order) ==
  IF order = <<>> \/ FieldNameOf(Head(order)) \notin DOMAIN dbTagMap THEN acc
  ELSE CondLoop_StopAtUnknown(CondStep(acc, t, dbTagMap, Head(order), filters[Head(order)]),
                              t, dbTagMap, filters, Tail(order))

RECURSIVE CondLoop(_, _, _, _, _)
CondLoop(acc, t, dbTagMap, filters, order) ==
  IF order = <<>> THEN acc
  ELSE CondLoop(CondStep(acc, t, dbTagMap, Head(order), filters[Head(order)]),
                t, dbTagMap, filters, Tail(order))

\* order is the order in which the range loop visits the filter's keys
constructConditions(t, filters, table, order) ==
  IF ~getModelInfo(table)
    THEN [err |-> "table name not initialized: " \o table, conditions |-> <<>>, args |-> <<>>]
  ELSE LET start == [conditions |-> <<>>, args |-> <<>>, argCounter |-> 1]
           done == IF filters.nil THEN start
                   ELSE CondLoop(start, t, cache[table].dbTagMap, filters.m, order)
       IN [err |-> "", conditions |-> done.conditions, args |-> done.args]

\* a variant that looks the field up before it validates the direction
SortStep_LookupFirst(acc, t, dbTagMap, field, order) ==
  IF acc.err # "" \/ field \notin DOMAIN dbTagMap THEN acc
  ELSE IF Text(ToUpper(order)) \notin {"ASC", "DESC"}
    THEN [acc EXCEPT !.err = "invalid sort order: " \o Text(ToUpper(order))]
  ELSE [acc EXCEPT !.sortClauses =
          Append(@, <<"\"", t, "\".", dbTagMap[field], " ", Text(ToUpper(order))>>)]

\* a variant that sorts by an unknown field under its own name
SortStep_NoLookup(acc, t, dbTagMap, field, order) ==
  IF acc.err # "" THEN acc
  ELSE IF Text(ToUpper(order)) \notin {"ASC", "DESC"}
    THEN [acc EXCEPT !.err = "invalid sort order: " \o Text(ToUpper(order))]
  ELSE [acc EXCEPT !.sortClauses =
          Append(@, <<"\"", t, "\".",
                      IF field \in DOMAIN dbTagMap THEN dbTagMap[field] ELSE field,
                      " ", Text(ToUpper(order))>>)]

\* one iteration of the loop of FilterQuery over the sort entries; after the
\* return with an error no further entry is visited
SortStep(acc, t, dbTagMap, field, order) ==
  IF acc.err # "" THEN acc
  ELSE IF Text(ToUpper(order)) \notin {"ASC", "DESC"}
    THEN [acc EXCEPT !.err = "invalid sort order: " \o Text(ToUpper(order))]
  ELSE IF field \in DOMAIN dbTagMap
    THEN [acc EXCEPT !.sortClauses =
            Append(@, <<"\"", t, "\".", dbTagMap[field], " ", Text(ToUpper(order))>>)]
  ELSE acc

RECURSIVE SortLoop(_, _, _, _, _)
SortLoop(acc, t, dbTagMap, sort, order) ==
  IF order = <<>> THEN acc
  ELSE SortLoop(SortStep(acc, t, dbTagMap, Head(order), sort[Head(order)]),
                t, dbTagMap, sort, Tail(order))

\* a variant that puts the ORDER BY clause before the WHERE clause
FilterQuery_OrderFirst(baseQuery, t, filters, sort, table, perPage, page, filterOrder, sortOrder) ==
  LET cc == constructConditions(t, filters, table, filterOrder)
      sorted == IF ~sort.nil /\ Cardinality(DOMAIN sort.m) > 0
                  THEN SortLoop([err |-> "", sortClauses |-> <<>>], t,
                                cache[table].dbTagMap, sort.m, sortOrder)
                ELSE [err |-> "", sortClauses |-> <<>>]
      ordered == IF Len(sorted.sortClauses) > 0
                   THEN baseQuery \o <<" ORDER BY ">> \o JoinTokens(sorted.sortClauses, ", ")
                 ELSE baseQuery
      where == IF Len(cc.conditions) > 0
                 THEN ordered \o <<" WHERE ">> \o JoinTokens(cc.conditions, " AND ")
               ELSE ordered
  IN IF cc.err # "" THEN [query |-> <<>>, args |-> <<>>, err |-> cc.err]
     ELSE IF sorted.err # "" THEN [query |-> <<>>, args |-> <<>>, err |-> sorted.err]
     ELSE [query |-> where \o <<" LIMIT ", ToString(perPage), " OFFSET ",
                                ToString((page - 1) * perPage)>>,
           args |-> cc.args, err |-> ""]

\* filterOrder and sortOrder are the orders in which the two range loops
\* visit the keys of the filter and of the sort map
FilterQuery(baseQuery, t, filters, sort, table, perPage, page, filterOrder, sortOrder) ==
  LET cc == constructConditions(t, filters, table, filterOrder)
      where == IF Len(cc.conditions) > 0
                 THEN baseQuery \o <<" WHERE ">> \o JoinTokens(cc.conditions, " AND ")
               ELSE baseQuery
      sorted == IF ~sort.nil /\ Cardinality(DOMAIN sort.m) > 0
                  THEN SortLoop([err |-> "", sortClauses |-> <<>>], t,
                                cache[table].dbTagMap, sort.m, sortOrder)
                ELSE [err |-> "", sortClauses |-> <<>>]
      ordered == IF Len(sorted.sortClauses) > 0
                   THEN where \o <<" ORDER BY ">> \o JoinTokens(sorted.sortClauses, ", ")
                 ELSE where
      limit == perPage
      offset == (page - 1) * perPage
  IN IF cc.err # "" THEN [query |-> <<>>, args |-> <<>>, err |-> cc.err]
     ELSE IF sorted.err # "" THEN [query |-> <<>>, args |-> <<>>, err |-> sorted.err]
     ELSE [query |-> ordered \o <<" LIMIT ", ToString(limit), " OFFSET ", ToString(offset)>>,
           args |-> cc.args, err |-> ""]

\* a caller compiles a filter and a sort description; the two maps are
\* visited in an order the runtime chooses
FilterCall ==
  /\ inp.op = "filter"
  /\ \E filterOrder \in Orders(inp.filters.m), sortOrder \in Orders(inp.sort.m) :
       res' = [op |-> "FilterQuery", filterOrder |-> filterOrder, sortOrder |-> sortOrder,
               out |-> FilterQuery(inp.baseQuery, inp.t, inp.filters, inp.sort, inp.table,
                                   inp.perPage, inp.page, filterOrder, sortOrder)]
  /\ UNCHANGED <<cache, pend, inp>>

\* The patterns of BuildFilterCount match characters; over the token sequences
\* of the model they match tokens.  A pattern's keyword with the white space
\* around it is one token, in the upper or in the lower case ((?i) matches
\* both); a number is one token; and every token that holds a closing
\* parenthesis starts with it, so that [^)]+ ends at a token boundary.
\* What \d+ matches: the numbers of the model's texts have one or two digits.
DigitTokens == {ToString(n) : n \in 0..99}

CloseParens == {")", ") ", ") AS \"t\""}

Spaces == {" "}

\* what `(?i)\sLIMIT\s+`, `(?i)\sOFFSET\s+` and `(?i)\sORDER\s+BY\s+` match
reLimit == {" LIMIT ", " limit "}

reOffset == {" OFFSET ", " offset "}

reOrderBy == {" ORDER BY ", " order by "}

\* re.ReplaceAllString(s, "") for a pattern keyword\d+
RECURSIVE RemoveNumbered(_, _)
RemoveNumbered(s, keyword) ==
  IF s = <<>> THEN <<>>
  ELSE IF Len(s) >= 2 /\ s[1] \in keyword /\ s[2] \in DigitTokens
    THEN RemoveNumbered(SubSeq(s, 3, Len(s)), keyword)
  ELSE <<s[1]>> \o RemoveNumbered(Tail(s), keyword)

\* a variant for the pattern .+, which matches up to the end of the text
SkipToParen_ToEnd(s) == <<>>

\* what is left of s after the longest match of [^)]+ at its start
RECURSIVE SkipToParen(_)
SkipToParen(s) == IF s = <<>> \/ s[1] \in CloseParens THEN s ELSE SkipToParen(Tail(s))

\* reOrderBy.ReplaceAllString(s, ""): [^)]+ needs one character at least
RECURSIVE RemoveOrderBy(_)
RemoveOrderBy(s) ==
  IF s = <<>> THEN <<>>
  ELSE IF Len(s) >= 2 /\ s[1] \in reOrderBy /\ s[2] \notin CloseParens
    THEN RemoveOrderBy(SkipToParen(Tail(s)))
  ELSE <<s[1]>> \o RemoveOrderBy(Tail(s))

RECURSIVE TrimSpace(_)
TrimSpace(s) ==
  IF s # <<>> /\ s[1] \in Spaces THEN TrimSpace(Tail(s))
  ELSE IF s # <<>> /\ s[Len(s)] \in Spaces THEN TrimSpace(SubSeq(s, 1, Len(s) - 1))
  ELSE s

\* a variant that leaves the OFFSET clause in the text
BuildFilterCount_KeepOffset(baseQuery) ==
  <<"SELECT COUNT(*) FROM (">>
    \o TrimSpace(RemoveOrderBy(TrimSpace(RemoveNumbered(baseQuery, reLimit))))
    \o <<") AS count_subquery">>

BuildFilterCount(baseQuery) ==
  LET unpaged == TrimSpace(RemoveNumbered(RemoveNumbered(baseQuery, reLimit), reOffset))
      unordered == TrimSpace(RemoveOrderBy(unpaged))
  IN <<"SELECT COUNT(*) FROM (">> \o unordered \o <<") AS count_subquery">>

\* a caller rewrites the text of a successful FilterQuery call into the
\* count statement, as ListAIModel does
CountCall ==
  /\ res.op = "FilterQuery"
  /\ res.out.err = ""
  /\ res' = [op |-> "BuildFilterCount", query |-> res.out.query, args |-> res.out.args,
             countQuery |-> BuildFilterCount(res.out.query)]
  /\ UNCHANGED <<cache, pend, inp>>

\* a caller asks for a column list, or for the defaults, of a table
GetSelectFieldsCall ==
  /\ inp.op = "fields"
  /\ res' = [op |-> "GetSelectFields", out |-> GetSelectFields(inp.tableName, inp.aliasTableName)]
  /\ UNCHANGED <<cache, pend, inp>>

GetInsertFieldsCall ==
  /\ inp.op = "fields"
  /\ res' = [op |-> "GetInsertFields", out |-> GetInsertFields(inp.tableName)]
  /\ UNCHANGED <<cache, pend, inp>>

GetUpdateFieldsCall ==
  /\ inp.op = "fields"
  /\ res' = [op |-> "GetUpdateFields", out |-> GetUpdateFields(inp.tableName)]
  /\ UNCHANGED <<cache, pend, inp>>

GetInsertValuesCall ==
  /\ inp.op = "fields"
  /\ res' = [op |-> "GetInsertValues", out |-> GetInsertValues(inp.tableName)]
  /\ UNCHANGED <<cache, pend, inp>>

\* code of the package calls getFieldsByMode with a mode of its own
getFieldsByModeCall ==
  /\ inp.op = "fields"
  /\ res' = [op |-> "getFieldsByMode",
             out |-> getFieldsByMode(inp.tableName, inp.mode, inp.aliasTableName)]
  /\ UNCHANGED <<cache, pend, inp>>

\* a caller builds the SELECT statement of a query builder
BuildCall ==
  /\ inp.op = "build"
  /\ res' = [op |-> "Build", out |-> Build(inp.qb)]
  /\ UNCHANGED <<cache, pend, inp>>

\* The page count of ListAIModel: int(math.Ceil(float64(count) / float64(perPage))).
\* A Go int of 64 bits is the record [hi, lo] that stands for hi * 2^52 + lo,
\* a float64 the record [hi, num, den] that stands for hi * 2^52 + num / den;
\* lo and num / den are small against 2^52.
GoInt(hi, lo) == [hi |-> hi, lo |-> lo]

\* the even integer next to an odd one whose half is even: float64 has 53
\* bits, so from 2^53 up to 2^54 its values are the even integers, and an odd
\* integer, half way between two of them, goes to the one with the even mantissa
RoundToEven(lo) ==
  IF lo % 2 = 0 THEN lo
  ELSE IF (lo + 1) % 4 = 0 THEN lo + 1
  ELSE lo - 1

\* float64(n): exact below 2^53, rounded to 53 bits from 2^53 on
Float64(n) ==
  IF n.hi < 2 THEN [hi |-> n.hi, num |-> n.lo, den |-> 1]
  ELSE [hi |-> n.hi, num |-> RoundToEven(n.lo), den |-> 1]

\* x / y for a divisor y that is a small positive integer.  Below 2^52 the
\* quotient of two small integers is rounded by less than its distance to the
\* next integer, so the exact quotient stands for it; from 2^52 on the model
\* divides by 1 and by 2 only, which is exact.
FloatDiv(x, y) == [hi |-> x.hi \div y.num, num |-> x.num, den |-> x.den * y.num]

\* math.Ceil
Ceil(x) == [hi |-> x.hi, num |-> (x.num + x.den - 1) \div x.den, den |-> 1]

\* int(x) for an integral x
IntOf(x) == GoInt(x.hi, x.num)

PageMax(count, perPage) == IntOf(Ceil(FloatDiv(Float64(count), Float64(perPage))))

\* ListAIModel fills the pagination record from the count of the rows
PaginationCall ==
  /\ inp.op = "page"
  /\ res' = [op |-> "Pagination", ResultsPerPage |-> inp.perPage, PageNo |-> inp.page,
             Count |-> inp.count, PageMax |-> PageMax(inp.count, inp.perPage)]
  /\ UNCHANGED <<cache, pend, inp>>

\* a caller builds an INSERT statement
InsertCall ==
  /\ inp.op = "orm"
  /\ res' = GetInsertQuery(inp.tableName, inp.valuesMap, inp.returning)
  /\ UNCHANGED <<cache, pend, inp>>

\* a caller builds an UPDATE statement
UpdateCall ==
  /\ inp.op = "orm"
  /\ res' = GetUpdateQuery(inp.tableName, inp.valuesMap, inp.returning)
  /\ UNCHANGED <<cache, pend, inp>>

Init ==
  /\ cache = EmptyMap
  /\ pend = EmptyMap
  /\ inp = [op |-> "none"]
  /\ res = [op |-> "none"]

Register ==
  \E p \in Callers, model \in Models, tableName \in Tables :
    InitModelTagCacheBegin(p, model, tableName)

Store == \E p \in Callers : InitModelTagCacheStore(p)

Next == Register \/ Store

Spec == Init /\ [][Next]_vars

\* registrations and lookups, interleaved in every way
NextLookup == Register \/ Store \/ getModelInfoCall

SpecLookup == Init /\ [][NextLookup]_vars

(***************************************************************************)
(* Registration of every struct of at most MaxFields fields, each field    *)
(* with one of the annotations below: with and without a column, with the  *)
(* ignore marker, with every flag alone and in combination, with and       *)
(* without a default.                                                      *)
(***************************************************************************)
FieldNames == <<"A", "B", "C", "D">>

ColumnNames == <<"a", "b", "c", "d">>

\* the field at position i of a struct, with one of the annotations
FieldsAt(i) ==
  LET name == FieldNames[i]
      col == ColumnNames[i]
  IN { Field(name, col, <<>>, ""),
       Field(name, col, <<"i">>, ""),
       Field(name, col, <<"i">>, "NOW()"),
       Field(name, col, <<"u">>, "NOW()"),
       Field(name, col, <<"i", ",", "u">>, "x"),
       Field(name, col, <<"s">>, ""),
       Field(name, col, <<"s", ",", "i">>, "NOW()"),
       Field(name, col, <<"l">>, ""),
       Field(name, col, <<"i", ",", "link">>, "NOW()"),
       Field(name, col, <<"l", ",", "s">>, ""),
       Field(name, "-", <<"i">>, "NOW()"),
       Field(name, "", <<"l">>, "") }

Shapes ==
  UNION {{[kind |-> "struct", fields |-> fields] :
            fields \in {f \in [1..n -> UNION {FieldsAt(i) : i \in 1..n}] :
                          \A i \in 1..n : f[i] \in FieldsAt(i)}} : n \in 0..MaxFields}

InitShapes ==
  /\ cache = EmptyMap
  /\ pend = EmptyMap
  /\ inp \in [op : {"register"}, model : Shapes, tableName : {"t"}]
  /\ res = [op |-> "none"]

RegisterShape == \E p \in Callers : InitModelTagCacheBegin(p, inp.model, inp.tableName)

NextShapes == RegisterShape \/ Store

SpecShapes == InitShapes /\ [][NextShapes]_vars

(***************************************************************************)
(* The statement builders are functions of the cache and their arguments:  *)
(* they are applied to arguments drawn from bounded sets, in every state   *)
(* of the cache that registrations of the struct models lead to.           *)
(***************************************************************************)
Infos == {BuildModelInfo(m) : m \in {x \in Models : ~getModelTypePanics(x)}}

CacheStates == UNION {[S -> Infos] : S \in SUBSET Tables}

\* under Spec the cache is always one of these
CacheIsBuilt == cache \in CacheStates

OrmKeys == {"id", "name", "note", "tag", "title", "zzz"}

OrmInputs ==
  [op : {"orm"}, tableName : Tables,
   valuesMap : MapsUpTo(OrmKeys, Values, MaxEntries),
   returning : {"", "id", "name"}]

InitOrm ==
  /\ cache \in CacheStates
  /\ pend = EmptyMap
  /\ inp \in OrmInputs
  /\ res = [op |-> "none"]

NextOrm == InsertCall \/ UpdateCall

SpecOrm == InitOrm /\ [][NextOrm]_vars

(***************************************************************************)
(* The column lists and the SELECT builder, in every state of the cache:   *)
(* every accessor with every table, mode and alias of the model, the       *)
(* builder with every chain of at most MaxJoins Left calls, and the two    *)
(* statement builders with a few value maps.                               *)
(***************************************************************************)
Modes == {"select", "insert", "update", "delete"}

Aliases == {"", "r", "r\"x"}

FieldsInputs == [op : {"fields"}, tableName : Tables, mode : Modes, aliasTableName : Aliases]

LeftArgs == [table : Tables, alias : {"", "r"}, on : {"t.r = r.id"}]

\* SelectBase(table, table) followed by the Left calls in their order
RECURSIVE Chain(_, _)
Chain(qb, lefts) ==
  IF lefts = <<>> THEN qb
  ELSE Chain(Left(qb, lefts[1].table, lefts[1].alias, lefts[1].on), Tail(lefts))

BuildInputs ==
  {[op |-> "build", lefts |-> lefts, qb |-> Chain(SelectBase(table, table), lefts)] :
     table \in Tables, lefts \in UNION {[1..n -> LeftArgs] : n \in 0..MaxJoins}}

FewOrmInputs ==
  [op : {"orm"}, tableName : Tables,
   valuesMap : {EmptyMap, ("id" :> IntVal("18")) @@ ("name" :> StrVal(<<"A", "b", "C">>))},
   returning : {""}]

InitSelect ==
  /\ cache \in CacheStates
  /\ pend = EmptyMap
  /\ inp \in FieldsInputs \cup BuildInputs \cup FewOrmInputs
  /\ res = [op |-> "none"]

NextSelect ==
  \/ GetSelectFieldsCall
  \/ GetInsertFieldsCall
  \/ GetUpdateFieldsCall
  \/ GetInsertValuesCall
  \/ getFieldsByModeCall
  \/ BuildCall
  \/ InsertCall
  \/ UpdateCall

SpecSelect == InitSelect /\ [][NextSelect]_vars

(***************************************************************************)
(* The filter compiler, applied to filter and sort maps drawn from bounded *)
(* sets: every small filter with a few sorts, and every sort with a few    *)
(* filters, in every state of the cache's entry for the table.            *)
(***************************************************************************)
Nil == [nil |-> TRUE, m |-> EmptyMap]

MapPtr(m) == [nil |-> FALSE, m |-> m]

FilterKeys ==
  { <<"Name">>, <<"Name", "[", "€", "like", "]">>, <<"ID", "[", "$in", "]">>,
    <<"Secret", "[", "€", "eq", "]">>, <<"Nope", "[", "$gt", "]">>, <<"name">> }

FilterValues == {StrVal(<<"A", "b", "C">>), IntVal("18")}

SortFields == {"Name", "ID", "Nope"}

SortOrders == { <<"A", "S", "C">>, <<"D", "e", "s", "c">>, <<"b", "o", "g", "u", "s">> }

AllFilters == {Nil} \cup {MapPtr(m) : m \in MapsUpTo(FilterKeys, FilterValues, MaxEntries)}

AllSorts == {Nil} \cup {MapPtr(m) : m \in MapsUpTo(SortFields, SortOrders, Cardinality(SortFields))}

FewFilters ==
  { MapPtr(EmptyMap),
    MapPtr((<<"Name">> :> IntVal("18")) @@ (<<"Nope", "[", "$gt", "]">> :> IntVal("18"))) }

FewSorts ==
  { Nil,
    MapPtr(("ID" :> <<"A", "S", "C">>) @@ ("Name" :> <<"D", "e", "s", "c">>)) }

PageSize == 10

Pages == {1, 3}

FilterInputs(filters, sorts) ==
  [op : {"filter"}, baseQuery : {<<"SELECT * FROM \"t\"">>}, t : {"t"},
   filters : filters, sort : sorts, table : {"t"},
   perPage : {PageSize}, page : Pages]

InitFilter ==
  /\ cache \in {c \in CacheStates : DOMAIN c \subseteq {"t"}}
  /\ pend = EmptyMap
  /\ inp \in FilterInputs(AllFilters, FewSorts) \cup FilterInputs(FewFilters, AllSorts)
  /\ res = [op |-> "none"]

NextFilter == FilterCall

SpecFilter == InitFilter /\ [][NextFilter]_vars

(***************************************************************************)
(* The filter compiler, applied to one entry on the field Name under every *)
(* operator token of getConditionString, the tokens with the marker of     *)
(* case-insensitive matching, and tokens that getConditionString does not  *)
(* know.                                                                   *)
(***************************************************************************)
OperatorTokens ==
  { <<>>, <<"$eq">>, <<"$ne">>, <<"$gt">>, <<"$gte">>, <<"$lt">>, <<"$lte">>,
    <<"$like">>, <<"$prefix">>, <<"$suffix">>, <<"$in">>, <<"$nin">>,
    <<"€", "eq">>, <<"€", "like">>, <<"€", "prefix">>, <<"€", "suffix">>,
    <<"€", "gt">>, <<"€", "in">>, <<"$", "between">>, <<"like">> }

OperatorKeys == {<<"Name">>} \cup {<<"Name", "[">> \o op \o <<"]">> : op \in OperatorTokens}

OperatorFilters == {MapPtr(key :> value) : key \in OperatorKeys, value \in Values}

InitOperators ==
  /\ cache \in {c \in CacheStates : DOMAIN c \subseteq {"t"}}
  /\ pend = EmptyMap
  /\ inp \in FilterInputs(OperatorFilters, {Nil})
  /\ res = [op |-> "none"]

NextOperators == FilterCall

SpecOperators == InitOperators /\ [][NextOperators]_vars

(***************************************************************************)
(* The count rewriter, applied to the texts FilterQuery gives for a plain  *)
(* base query, for one that ends with a space (as QueryBuilder.Build gives *)
(* without joins) and for one with an ordered, limited subquery.           *)
(***************************************************************************)
CountBaseQueries ==
  { <<"SELECT * FROM \"t\"">>,
    <<"SELECT * FROM \"t\"", " ">>,
    <<"SELECT * FROM (SELECT * FROM \"x\"", " ORDER BY ", "id", " LIMIT ", "5", ") AS \"t\"">> }

CountFilters ==
  { Nil,
    MapPtr(<<"Name">> :> StrVal(<<"A", "b", "C">>)),
    MapPtr((<<"Name", "[", "€", "like", "]">> :> StrVal(<<"A", "b", "C">>))
             @@ (<<"ID", "[", "$in", "]">> :> IntVal("18"))),
    MapPtr(<<"Nope", "[", "$gt", "]">> :> IntVal("18")) }

CountSorts ==
  { Nil,
    MapPtr("Name" :> <<"A", "S", "C">>),
    MapPtr(("ID" :> <<"A", "S", "C">>) @@ ("Name" :> <<"D", "e", "s", "c">>)),
    MapPtr("Nope" :> <<"d", "e", "s", "c">>) }

InitCount ==
  /\ cache \in {c \in CacheStates : DOMAIN c \subseteq {"t"}}
  /\ pend = EmptyMap
  /\ inp \in [op : {"filter"}, baseQuery : CountBaseQueries, t : {"t"},
              filters : CountFilters, sort : CountSorts, table : {"t"},
              perPage : {PageSize}, page : Pages]
  /\ res = [op |-> "none"]

NextCount == FilterCall \/ CountCall

SpecCount == InitCount /\ [][NextCount]_vars

(***************************************************************************)
(* The page count, for every count of at most MaxCount rows with a few     *)
(* page sizes, and for the counts from 2^53 to 2^53 + MaxCount with the    *)
(* page sizes 1 and 2.                                                     *)
(***************************************************************************)
PageInputs ==
  [op : {"page"}, count : {GoInt(0, lo) : lo \in 0..MaxCount},
   perPage : {GoInt(0, n) : n \in {1, 2, 3, PageSize}}, page : Pages]
  \cup
  [op : {"page"}, count : {GoInt(2, lo) : lo \in 0..MaxCount},
   perPage : {GoInt(0, n) : n \in {1, 2}}, page : Pages]

InitPage ==
  /\ cache = EmptyMap
  /\ pend = EmptyMap
  /\ inp \in PageInputs
  /\ res = [op |-> "none"]

NextPage == PaginationCall

SpecPage == InitPage /\ [][NextPage]_vars

(***************************************************************************)
(* The metadata cache.                                                     *)
(***************************************************************************)

\* C1: an InitModelTagCache call made for a table identifier that is already
\* in the cache returns at once, whatever the record shape (another struct,
\* a non-struct): it does not panic, builds nothing and leaves the cached
\* entry (column lists, their order, default values, linked fields) as it was.
C1_RegisterIdempotent ==
  [][(/\ res'.op = "InitModelTagCache"
      /\ res'.out # "stored"
      /\ res'.table \in DOMAIN cache)
     => (/\ res'.out = "already"
         /\ cache' = cache
         /\ pend' = pend)]_vars

\* a non-struct shape, and a struct of another shape, re-registered
C1_Witness ==
  /\ res.op = "InitModelTagCache"
  /\ res.out = "already"
  /\ getModelTypePanics(res.model)
  /\ cache[res.table] = BuildModelInfo(StructU)

\* C2: registration is first-writer-wins under concurrency: in every
\* interleaving of the callers' existence checks and stores, an entry once
\* stored is never replaced by a later store.
C2_FirstWriterWins ==
  [][\A t \in DOMAIN cache : t \in DOMAIN cache' /\ cache'[t] = cache[t]]_vars

(***************************************************************************)
(* The insert and update builders.                                         *)
(***************************************************************************)

\* reading a statement: the first place of a token, the tokens between two
\* places, and a comma-separated list as its entries' texts
IndexOf(q, tok) ==
  IF \E i \in 1..Len(q) : q[i] = tok
  THEN CHOOSE i \in 1..Len(q) : q[i] = tok /\ \A j \in 1..(i - 1) : q[j] # tok
  ELSE 0

Between(q, from, to) == SubSeq(q, IndexOf(q, from) + 1, IndexOf(q, to) - 1)

ListOf(tokens, sep) ==
  IF tokens = <<>> THEN <<>>
  ELSE [i \in 1..Len(Split(tokens, sep)) |-> Split(tokens, sep)[i]]

ValuesEntries(q) ==
  LET list == ListOf(Between(q, ") VALUES (", ")"), ",")
  IN [i \in 1..Len(list) |-> Text(list[i])]

KeywordLiterals == {"NOW()", "NULL", "true", "false", "DEFAULT"}

Placeholders(n) == {Ph(i) : i \in 1..n}

InsertDone == res.op = "GetInsertQuery" /\ res.panic = ""

UpdateDone == res.op = "GetUpdateQuery" /\ res.panic = ""

\* C3: GetInsertQuery decides each insertable column, in metadata order: a
\* column in the value map gets the next placeholder, bound to the caller's
\* value, whether or not a default is registered; else a registered default
\* is spliced when it is one of the five keyword literals and otherwise bound
\* to the next placeholder; else the entry is DEFAULT.  RETURNING is there
\* exactly when the returning column is not empty.
C3_InsertRule ==
  InsertDone =>
    LET cols == cache[inp.tableName].dbFieldsInsert
        defs == cache[inp.tableName].dbInsertValueMap
        vm == inp.valuesMap
        entries == ValuesEntries(res.query)
        Bound(i) == \/ cols[i] \in DOMAIN vm
                    \/ cols[i] \in DOMAIN defs /\ defs[cols[i]] \notin KeywordLiterals
        Slot(i) == Cardinality({j \in 1..i : Bound(j)})
    IN /\ Len(entries) = Len(cols)
       /\ Len(res.args) = Cardinality({j \in 1..Len(cols) : Bound(j)})
       /\ \A i \in 1..Len(cols) :
            IF cols[i] \in DOMAIN vm
              THEN entries[i] = Ph(Slot(i)) /\ res.args[Slot(i)] = vm[cols[i]]
            ELSE IF cols[i] \in DOMAIN defs
              THEN IF defs[cols[i]] \in KeywordLiterals
                     THEN entries[i] = defs[cols[i]]
                   ELSE /\ entries[i] = Ph(Slot(i))
                        /\ res.args[Slot(i)] = StrVal(<<defs[cols[i]]>>)
            ELSE entries[i] = "DEFAULT"
       /\ (IndexOf(res.query, " RETURNING \"") > 0) <=> (inp.returning # "")
       /\ inp.returning # "" =>
            SubSeq(res.query, Len(res.query) - 2, Len(res.query))
              = <<" RETURNING \"", inp.returning, "\"">>

\* a caller's value where a default is registered, a spliced keyword, a bound
\* default and a bare DEFAULT in one statement
C3_Witness ==
  /\ InsertDone
  /\ "note" \in DOMAIN inp.valuesMap
  /\ "name" \in DOMAIN inp.valuesMap
  /\ ValuesEntries(res.query) = <<"DEFAULT", "$1", "$2", "$3">>
  /\ res.args[3] = StrVal(<<"x');--">>)
  /\ inp.returning = "id"

\* C4: every entry of the VALUES list is a placeholder $N or one of the five
\* keyword literals; a default outside the allow-list and a caller's value
\* are in the argument list only, never in the statement.
C4_ValuesAreSafe ==
  InsertDone =>
    LET cols == cache[inp.tableName].dbFieldsInsert
        defs == cache[inp.tableName].dbInsertValueMap
        entries == ValuesEntries(res.query)
        tokens == {res.query[i] : i \in 1..Len(res.query)}
    IN /\ \A i \in 1..Len(entries) :
            entries[i] \in Placeholders(Len(res.args)) \cup KeywordLiterals
       /\ \A c \in DOMAIN defs : defs[c] \notin KeywordLiterals => defs[c] \notin tokens
       /\ \A i \in 1..Len(cols) :
            cols[i] \in DOMAIN inp.valuesMap =>
              /\ entries[i] \in Placeholders(Len(res.args))
              /\ \E k \in 1..Len(res.args) : res.args[k] = inp.valuesMap[cols[i]]

\* a default outside the allow-list is bound, and a caller's value that reads
\* NULL is bound as well
C4_Witness ==
  /\ InsertDone
  /\ "tag" \in DOMAIN cache[inp.tableName].dbInsertValueMap
  /\ "tag" \notin DOMAIN inp.valuesMap
  /\ "id" \in DOMAIN inp.valuesMap
  /\ inp.valuesMap["id"] = StrVal(<<"N", "U", "L", "L">>)
  /\ ValuesEntries(res.query) = <<"$1", "DEFAULT", "NULL", "$2">>

\* C6: GetUpdateQuery emits `col = $N` for exactly the updatable columns that
\* are keys of the value map, in metadata order, numbered $1..$n; WHERE
\* compares the key column with $n+1; the arguments are the n assigned values
\* in that order and then the key's value.
C6_UpdateShape ==
  UpdateDone =>
    LET vm == inp.valuesMap
        InMap(f) == f \in DOMAIN vm
        present == SelectSeq(cache[inp.tableName].dbFieldsUpdate, InMap)
        n == Len(present)
        q == res.query
    IN /\ ListOf(Between(q, "\" SET ", " WHERE \""), ", ")
            = [i \in 1..n |-> <<present[i], " = ", Ph(i)>>]
       /\ SubSeq(q, IndexOf(q, " WHERE \""), Len(q))
            = <<" WHERE \"", inp.returning, "\" = ", Ph(n + 1),
                " RETURNING \"", inp.returning, "\"">>
       /\ SubSeq(q, 1, IndexOf(q, "\" SET ")) = <<"UPDATE \"", inp.tableName, "\" SET ">>
       /\ res.args = [i \in 1..n |-> vm[present[i]]] \o <<vm[inp.returning]>>

\* two assignments, and an updatable column that is not in the value map
C6_Witness ==
  /\ UpdateDone
  /\ Len(res.args) = 3
  /\ \E f \in cache[inp.tableName].dbFieldsUpdateMap : f \notin DOMAIN inp.valuesMap
  /\ res.args[1] # res.args[2]

\* C7: GetUpdateQuery panics, and returns neither a statement nor arguments,
\* whenever the value map has none of the table's updatable columns or the
\* returning/key column is not a key of the value map.
C7_UpdatePanics ==
  (/\ res.op = "GetUpdateQuery"
   /\ inp.tableName \in DOMAIN cache
   /\ \/ cache[inp.tableName].dbFieldsUpdateMap \cap DOMAIN inp.valuesMap = {}
      \/ inp.returning \notin DOMAIN inp.valuesMap)
  => (res.panic # "" /\ DOMAIN res = {"op", "panic"})

\* the key is in the value map and no updatable column is
C7_Witness ==
  /\ res.op = "GetUpdateQuery"
  /\ inp.tableName \in DOMAIN cache
  /\ cache[inp.tableName].dbFieldsUpdate # <<>>
  /\ cache[inp.tableName].dbFieldsUpdateMap \cap DOMAIN inp.valuesMap = {}
  /\ inp.returning \in DOMAIN inp.valuesMap
  /\ res.panic = "No fields to update"

(***************************************************************************)
(* The filter and sort compiler.                                           *)
(***************************************************************************)
FilterDone == res.op = "FilterQuery"

FilterOk == FilterDone /\ res.out.err = ""

\* the descriptor map of the table the call names
TagMap == cache[inp.table].dbTagMap

KnownKey(filterKey) == Split(filterKey, "[")[1] \in {<<f>> : f \in DOMAIN TagMap}

\* the WHERE clause's conditions and the ORDER BY clause's terms, as the
\* statement shows them
ClauseEnd(q, from) ==
  CHOOSE i \in (from + 1)..Len(q) :
    /\ q[i] \in {" ORDER BY ", " LIMIT "}
    /\ \A j \in (from + 1)..(i - 1) : q[j] \notin {" ORDER BY ", " LIMIT "}

ConditionsOf(q) ==
  IF IndexOf(q, " WHERE ") = 0 THEN <<>>
  ELSE ListOf(SubSeq(q, IndexOf(q, " WHERE ") + 1, ClauseEnd(q, IndexOf(q, " WHERE ")) - 1),
              " AND ")

SortTermsOf(q) ==
  IF IndexOf(q, " ORDER BY ") = 0 THEN <<>>
  ELSE ListOf(Between(q, " ORDER BY ", " LIMIT "), ", ")

PlaceholdersIn(tokens) ==
  LET IsPh(tok) == tok \in Placeholders(Len(tokens) + MaxEntries)
  IN SelectSeq(tokens, IsPh)

\* the value an entry binds: lower-cased under the case-insensitive marker
\* when it is a string, wrapped as one array under $in and $nin
HasMarker(filterKey) == \E i \in 1..(Len(filterKey) - 1) : filterKey[i] = "[" /\ filterKey[i + 1] = "€"

LowerCased == (<<"A", "b", "C">> :> <<"a", "b", "c">>)

BoundValue(filterKey, value) ==
  LET v == IF HasMarker(filterKey) /\ value.k = "string" /\ value.v \in DOMAIN LowerCased
             THEN StrVal(LowerCased[value.v])
           ELSE value
  IN IF \E i \in 1..Len(filterKey) : filterKey[i] \in {"$in", "$nin"}
       THEN [k |-> "pq.Array(" \o v.k \o ")", v |-> v.v]
     ELSE v

\* C5: whatever the order in which the filter's entries are processed, the k
\* conditions hold $1..$k in that order, there are exactly k arguments, and
\* the i-th argument is the (lower-cased, array-wrapped) value of the entry
\* whose condition holds $i; an ignored entry takes no number and no slot, an
\* array takes one.
C5_PlaceholdersFollowProcessing ==
  FilterOk =>
    LET known == SelectSeq(res.filterOrder, KnownKey)
        conds == ConditionsOf(res.out.query)
    IN /\ Len(conds) = Len(known)
       /\ Len(res.out.args) = Len(known)
       /\ \A i \in 1..Len(known) :
            /\ PlaceholdersIn(conds[i]) = <<Ph(i)>>
            /\ conds[i][4] = TagMap[FieldNameOf(known[i])]
            /\ res.out.args[i] = BoundValue(known[i], inp.filters.m[known[i]])

\* an ignored entry is processed first, then an array entry
C5_Witness ==
  /\ FilterOk
  /\ Len(res.filterOrder) = 2
  /\ ~KnownKey(res.filterOrder[1])
  /\ res.filterOrder[2] = <<"ID", "[", "$in", "]">>
  /\ res.out.args = <<[k |-> "pq.Array(string)", v |-> <<"A", "b", "C">>]>>

\* the call's result when the filter has only the entries with keys in K
WithFilterKeys(K) ==
  LET IsIn(filterKey) == filterKey \in K
  IN FilterQuery(inp.baseQuery, inp.t, [inp.filters EXCEPT !.m = Restrict(@, K)], inp.sort,
                 inp.table, inp.perPage, inp.page, SelectSeq(res.filterOrder, IsIn),
                 res.sortOrder)

ValidDirections ==
  { <<"A", "S", "C">>, <<"a", "s", "c">>, <<"D", "E", "S", "C">>, <<"D", "e", "s", "c">>,
    <<"d", "e", "s", "c">> }

\* C8: a filter entry whose field is not in the table's descriptor map is
\* ignored: the call gives what it gives without the entry (no condition, no
\* placeholder, no argument, no error); when every entry is unknown there is
\* no WHERE clause and no argument.
C8_UnknownFilterIgnored ==
  (FilterDone /\ inp.table \in DOMAIN cache) =>
    LET knownKeys == {key \in DOMAIN inp.filters.m : KnownKey(key)}
    IN /\ res.out = WithFilterKeys(knownKeys)
       /\ (\A f \in DOMAIN inp.sort.m : inp.sort.m[f] \in ValidDirections) => res.out.err = ""
       /\ (res.out.err = "" /\ knownKeys = {}) =>
            /\ IndexOf(res.out.query, " WHERE ") = 0
            /\ res.out.args = <<>>

\* an unknown entry is processed before a known one
C8_Witness ==
  /\ FilterOk
  /\ Len(res.filterOrder) = 2
  /\ ~KnownKey(res.filterOrder[1])
  /\ KnownKey(res.filterOrder[2])
  /\ Len(ConditionsOf(res.out.query)) = 1
  /\ PlaceholdersIn(res.out.query) = <<"$1">>

\* C9: a direction that upper-cases to ASC or DESC is emitted as exactly ASC
\* or DESC; a sort map with an entry whose direction is anything else makes
\* FilterQuery return an error with empty text and no arguments, which for a
\* registered table is the invalid-sort-order error.
C9_SortDirections ==
  FilterDone =>
    LET sort == inp.sort.m
        bad == {f \in DOMAIN sort : sort[f] \notin ValidDirections}
        terms == SortTermsOf(res.out.query)
    IN /\ bad # {} =>
            /\ res.out.err # ""
            /\ res.out.query = <<>>
            /\ res.out.args = <<>>
            /\ inp.table \in DOMAIN cache =>
                 \E f \in bad : res.out.err = "invalid sort order: " \o Text(ToUpper(sort[f]))
       /\ bad = {} => (res.out.err = "" <=> inp.table \in DOMAIN cache)
       /\ res.out.err = "" =>
            LET InTable(f) == f \in DOMAIN TagMap
                shown == SelectSeq(res.sortOrder, InTable)
            IN /\ Len(terms) = Len(shown)
               /\ \A i \in 1..Len(shown) :
                    /\ terms[i][4] = TagMap[shown[i]]
                    /\ terms[i][6] = IF sort[shown[i]][1] \in {"A", "a"} THEN "ASC" ELSE "DESC"

\* a valid entry of a known field is visited first, then an invalid one
C9_Witness ==
  /\ FilterDone
  /\ inp.table \in DOMAIN cache
  /\ Len(res.sortOrder) = 2
  /\ res.sortOrder[1] \in DOMAIN TagMap
  /\ inp.sort.m[res.sortOrder[1]] = <<"D", "e", "s", "c">>
  /\ inp.sort.m[res.sortOrder[2]] = <<"b", "o", "g", "u", "s">>
  /\ res.out.err = "invalid sort order: BOGUS"

\* the call's result when the sort map has only the entries with fields in F
WithSortFields(F) ==
  LET IsIn(f) == f \in F
  IN FilterQuery(inp.baseQuery, inp.t, inp.filters, [inp.sort EXCEPT !.m = Restrict(@, F)],
                 inp.table, inp.perPage, inp.page, res.filterOrder,
                 SelectSeq(res.sortOrder, IsIn))

\* C10, as claimed: a sort entry whose field is not in the table's descriptor
\* map never makes FilterQuery fail, so a call whose known sort entries are
\* all valid succeeds.
C10_UnknownSortNeverFails ==
  (/\ FilterDone
   /\ inp.table \in DOMAIN cache
   /\ \A f \in DOMAIN inp.sort.m \cap DOMAIN TagMap : inp.sort.m[f] \in ValidDirections)
  => res.out.err = ""

\* C10, amended: a sort entry whose field is not in the table's descriptor
\* map gives no ORDER BY term, and when its direction is valid the call gives
\* what it gives without the entry; the direction of every entry is checked,
\* so an unknown field with an invalid direction fails the call.
C10_UnknownSortIgnored ==
  (FilterDone /\ inp.table \in DOMAIN cache) =>
    LET sort == inp.sort.m
        unknown == DOMAIN sort \ DOMAIN TagMap
        terms == SortTermsOf(res.out.query)
    IN /\ (\A f \in unknown : sort[f] \in ValidDirections) =>
            res.out = WithSortFields(DOMAIN sort \cap DOMAIN TagMap)
       /\ (\E f \in unknown : sort[f] \notin ValidDirections) => res.out.err # ""
       /\ res.out.err = "" =>
            /\ Len(terms) = Cardinality(DOMAIN sort \cap DOMAIN TagMap)
            /\ \A i \in 1..Len(terms) : terms[i][4] \in {TagMap[f] : f \in DOMAIN sort \cap DOMAIN TagMap}

\* an unknown field with a valid direction is visited before a known field
C10_Witness ==
  /\ FilterOk
  /\ Len(res.sortOrder) = 2
  /\ res.sortOrder[1] \notin DOMAIN TagMap
  /\ res.sortOrder[2] \in DOMAIN TagMap
  /\ Len(SortTermsOf(res.out.query)) = 1

(***************************************************************************)
(* The operators of a filter key.                                          *)
(***************************************************************************)

\* the call compiled a filter of one entry whose field is known
OneEntryDone ==
  /\ FilterOk
  /\ ~inp.filters.nil
  /\ Cardinality(DOMAIN inp.filters.m) = 1
  /\ \A key \in DOMAIN inp.filters.m : KnownKey(key)

TheKey == CHOOSE key \in DOMAIN inp.filters.m : TRUE

TheValue == inp.filters.m[TheKey]

\* the text between the brackets of the key
TheOperator == Text(SubSeq(TheKey, 3, Len(TheKey) - 1))

\* the comparison of the one condition: what follows the column reference
TheComparison == Text(SubSeq(ConditionsOf(res.out.query)[1], 6, Len(ConditionsOf(res.out.query)[1])))

ListedTemplate(operator) ==
  CASE operator \in {"", "$eq"} -> "= $1"
    [] operator = "$ne" -> "!= $1"
    [] operator = "$gt" -> "> $1"
    [] operator = "$gte" -> ">= $1"
    [] operator = "$lt" -> "< $1"
    [] operator = "$lte" -> "<= $1"
    [] operator \in {"$like", "$prefix", "$suffix"} -> "LIKE $1"
    [] operator = "$in" -> "= ANY($1)"
    [] operator = "$nin" -> "!= ALL($1)"
    [] OTHER -> "= $1"

MarkedTemplate(operator) ==
  IF operator \in {"€like", "€prefix", "€suffix"} THEN "LIKE $1" ELSE ListedTemplate(operator)

\* the value of the one entry is bound as it is under the pattern operators
\* and as one array under $in and $nin
ValueBoundAsListed ==
  /\ Len(res.out.args) = 1
  /\ TheOperator \in {"$like", "$prefix", "$suffix"} => res.out.args[1] = TheValue
  /\ TheOperator \in {"$in", "$nin"} =>
       res.out.args[1] = [k |-> "pq.Array(" \o TheValue.k \o ")", v |-> TheValue.v]
  /\ TheOperator \notin {"$in", "$nin"} => res.out.args[1].k = TheValue.k

\* C11, as claimed: the operator token selects the comparison: none and $eq
\* give "= $N", $ne "!= $N", $gt, $gte, $lt, $lte the inequalities, $like,
\* $prefix and $suffix "LIKE $N" with the value bound as it is, $in
\* "= ANY($N)" and $nin "!= ALL($N)" with the value bound as one array, and
\* any other token "= $N".
C11_OtherTokensAreEquality ==
  OneEntryDone => (TheComparison = ListedTemplate(TheOperator) /\ ValueBoundAsListed)

\* C11, amended: as claimed for the tokens the claim lists; of the other
\* tokens, the three pattern operators written with the marker of
\* case-insensitive matching (€like, €prefix, €suffix) give "LIKE $N" too, and
\* every token that is left (€eq, a marked inequality or list operator, an
\* unknown word) gives "= $N" with the value bound as one plain argument.
C11_OperatorTemplates ==
  OneEntryDone => (TheComparison = MarkedTemplate(TheOperator) /\ ValueBoundAsListed)

\* the entry Name[$nin] was compiled
C11_Witness ==
  /\ OneEntryDone
  /\ TheOperator = "$nin"
  /\ TheComparison = "!= ALL($1)"
  /\ res.out.args[1].k = "pq.Array(string)"

\* the lower-case forms of the model's string values
LowerCasedText ==
  (<<"A", "b", "C">> :> <<"a", "b", "c">>) @@ (<<"N", "U", "L", "L">> :> <<"n", "u", "l", "l">>)

\* the one condition's column reference is LOWER("t".column), or "t".column
ColumnIsWrapped ==
  LET cond == ConditionsOf(res.out.query)[1]
  IN /\ cond[1] = "LOWER(\"" /\ cond[5] = ") "
     /\ cond[2] = inp.t /\ cond[3] = "\"." /\ cond[4] = TagMap["Name"]

ColumnIsPlain ==
  LET cond == ConditionsOf(res.out.query)[1]
  IN /\ cond[1] = "\"" /\ cond[5] = " "
     /\ cond[2] = inp.t /\ cond[3] = "\"." /\ cond[4] = TagMap["Name"]

\* C12: when the operator of a filter key starts with the marker €, the
\* column reference of the condition is wrapped in LOWER(...), a string
\* value is bound lower-cased and a value that is not a string is bound as
\* it is; without the marker the column is not wrapped and the value keeps
\* its case.
C12_CaseInsensitiveMarker ==
  OneEntryDone =>
    IF HasMarker(TheKey)
      THEN /\ ColumnIsWrapped
           /\ res.out.args = <<IF TheValue.k = "string"
                                 THEN StrVal(LowerCasedText[TheValue.v]) ELSE TheValue>>
    ELSE /\ ColumnIsPlain
         /\ Len(res.out.args) = 1
         /\ res.out.args[1].v = TheValue.v

\* the entry Name[€like] with the value AbC was compiled
C12_Witness ==
  /\ OneEntryDone
  /\ TheOperator = "€like"
  /\ TheValue = StrVal(<<"A", "b", "C">>)
  /\ ColumnIsWrapped
  /\ res.out.args = <<StrVal(<<"a", "b", "c">>)>>

(***************************************************************************)
(* The text of a filtered statement.                                       *)
(***************************************************************************)

\* the number of times the token occurs in the text
Occurrences(q, tok) == Cardinality({i \in 1..Len(q) : q[i] = tok})

WhereClause(q) ==
  IF IndexOf(q, " WHERE ") = 0 THEN <<>>
  ELSE <<" WHERE ">> \o JoinTokens(ConditionsOf(q), " AND ")

OrderByClause(q) ==
  IF IndexOf(q, " ORDER BY ") = 0 THEN <<>>
  ELSE <<" ORDER BY ">> \o JoinTokens(SortTermsOf(q), ", ")

PageClause == <<" LIMIT ", ToString(inp.perPage), " OFFSET ", ToString((inp.page - 1) * inp.perPage)>>

\* C13: the text of a successful FilterQuery call is the base query, then
\* WHERE and the conditions joined by AND exactly when a condition was
\* produced, then ORDER BY and the terms joined by commas exactly when a sort
\* entry names a known field, then LIMIT pageSize OFFSET (page-1)*pageSize.
C13_ClauseOrder ==
  FilterOk =>
    LET q == res.out.query
        knownKeys == {key \in DOMAIN inp.filters.m : KnownKey(key)}
        knownSorts == DOMAIN inp.sort.m \cap DOMAIN TagMap
    IN /\ q = inp.baseQuery \o WhereClause(q) \o OrderByClause(q) \o PageClause
       /\ Occurrences(q, " WHERE ") = (IF knownKeys # {} THEN 1 ELSE 0)
       /\ Occurrences(q, " ORDER BY ") = (IF knownSorts # {} THEN 1 ELSE 0)
       /\ Occurrences(q, " LIMIT ") = 1
       /\ Len(ConditionsOf(q)) = Cardinality(knownKeys)
       /\ Len(SortTermsOf(q)) = Cardinality(knownSorts)

\* a call for page 3 with a condition and a sort term
C13_Witness ==
  /\ FilterOk
  /\ inp.page = 3
  /\ Len(ConditionsOf(res.out.query)) = 1
  /\ Len(SortTermsOf(res.out.query)) = 2
  /\ SubSeq(res.out.query, Len(res.out.query) - 3, Len(res.out.query)) = <<" LIMIT ", "10", " OFFSET ", "20">>

(***************************************************************************)
(* The count statement.                                                    *)
(***************************************************************************)
CountDone == res.op = "BuildFilterCount"

\* the text between "SELECT COUNT(*) FROM (" and ") AS count_subquery"
Remainder == SubSeq(res.countQuery, 2, Len(res.countQuery) - 1)

IsWrapped ==
  /\ Len(res.countQuery) >= 2
  /\ res.countQuery[1] = "SELECT COUNT(*) FROM ("
  /\ res.countQuery[Len(res.countQuery)] = ") AS count_subquery"

\* no LIMIT n, no OFFSET n and no ORDER BY clause in the text
NoPagingIn(q) ==
  \A i \in 1..Len(q) : q[i] \notin reLimit \cup reOffset \cup reOrderBy

\* the base query holds none of the three clauses and no white space at its ends
PlainBase ==
  /\ NoPagingIn(inp.baseQuery)
  /\ inp.baseQuery[1] \notin Spaces
  /\ inp.baseQuery[Len(inp.baseQuery)] \notin Spaces

\* C14, as claimed: the count statement made from a text of FilterQuery is
\* SELECT COUNT(*) FROM (remainder) AS count_subquery, where the remainder is
\* the base query followed by the WHERE clause of the text and holds no LIMIT,
\* OFFSET or ORDER BY.
C14_RemainderIsBaseAndWhere ==
  CountDone =>
    /\ IsWrapped
    /\ NoPagingIn(Remainder)
    /\ Remainder = inp.baseQuery \o WhereClause(res.query)

\* C14, amended: the count statement is SELECT COUNT(*) FROM (remainder) AS
\* count_subquery, the remainder holding no LIMIT n, OFFSET n or ORDER BY
\* clause; it is the base query followed by the WHERE clause when the base
\* query itself holds none of these clauses and no white space at its ends
\* (such clauses of the base query are removed as well, up to the next closing
\* parenthesis for ORDER BY, and white space at the ends is trimmed).
C14_CountStatement ==
  CountDone =>
    /\ IsWrapped
    /\ NoPagingIn(Remainder)
    /\ PlainBase => Remainder = inp.baseQuery \o WhereClause(res.query)

\* the text had a WHERE, an ORDER BY, a LIMIT and an OFFSET clause
C14_Witness ==
  /\ CountDone
  /\ PlainBase
  /\ Len(ConditionsOf(res.query)) = 2
  /\ Len(SortTermsOf(res.query)) = 2
  /\ inp.page = 3
  /\ Len(Remainder) = Len(res.query) - 18

(***************************************************************************)
(* The column lists and the SELECT statement.                              *)
(***************************************************************************)
AccessorDone ==
  res.op \in {"GetSelectFields", "GetInsertFields", "GetUpdateFields", "GetInsertValues",
              "getFieldsByMode"}

BuildDone == res.op = "Build"

\* the tables a query builder names
TablesOf(qb) == {qb.Table} \cup {qb.Joins[i].Table : i \in 1..Len(qb.Joins)}

\* the call panicked and gave nothing else
Fatal(out) == out.panic # "" /\ DOMAIN out \subseteq {"op", "panic"}

\* C15: GetSelectFields, GetInsertFields, GetUpdateFields, GetInsertValues,
\* QueryBuilder.Build, GetInsertQuery and GetUpdateQuery panic when a table
\* they are given is not in the cache, and getFieldsByMode panics for a mode
\* other than select, insert and update; a call that panics gives no column
\* list and no statement, and the accessors and Build panic in no other case.
C15_UnregisteredIsFatal ==
  /\ AccessorDone =>
       (Fatal(res.out) <=>
          \/ inp.tableName \notin DOMAIN cache
          \/ res.op = "getFieldsByMode" /\ inp.mode \notin {"select", "insert", "update"})
  /\ BuildDone => (Fatal(res.out) <=> ~(TablesOf(inp.qb) \subseteq DOMAIN cache))
  /\ (res.op \in {"GetInsertQuery", "GetUpdateQuery"} /\ inp.tableName \notin DOMAIN cache)
       => Fatal(res)
  /\ (AccessorDone \/ BuildDone) => (Fatal(res.out) \/ res.out.panic = "")

\* Build panicked at its second join, the table of which is not in the cache
C15_Witness ==
  /\ BuildDone
  /\ Len(inp.qb.Joins) = 2
  /\ {inp.qb.Table, inp.qb.Joins[1].Table} \subseteq DOMAIN cache
  /\ inp.qb.Joins[2].Table \notin DOMAIN cache
  /\ Fatal(res.out)

(***************************************************************************)
(* The filter compiler and a table that is not in the cache.               *)
(***************************************************************************)

\* the call came back to its caller with an error value
ReturnedError(out) == "err" \in DOMAIN out /\ out.err # ""

\* C16: a FilterQuery call for a table that is not in the cache panics: it
\* does not come back to its caller with an error value.
C16_FilterUnregisteredIsFatal ==
  (FilterDone /\ inp.table \notin DOMAIN cache) => ~ReturnedError(res.out)

(***************************************************************************)
(* The metadata of a registered struct.                                    *)
(***************************************************************************)

\* the fields of the struct the entry of the table was built from
DeclaredFields == inp.model.fields

Flagged(field, flag) == \E i \in 1..Len(field.dbMode) : field.dbMode[i] = flag

IsLinked(field) == Flagged(field, "l") \/ Flagged(field, "link")

IsSkip(field) == Flagged(field, "s")

\* the field has a column annotation: it has a descriptor
Annotated(field) == field.db \notin {"", "-"}

Listed(field) == Annotated(field) /\ ~IsSkip(field) /\ ~IsLinked(field)

ElementsOf(seq) == {seq[i] : i \in 1..Len(seq)}

\* C17: in every entry of the cache, the column of a field flagged s, l or
\* link is in none of the select, insert and update lists, whatever its other
\* flags; every annotated field flagged l or link is in linkedFields under its
\* structural name with its annotation (the join alias); and linkedFields
\* holds nothing else: no field that is not linked, and no field without an
\* annotation.
C17_SkipAndLinked ==
  \A tableName \in DOMAIN cache :
    LET info == cache[tableName]
        lists == ElementsOf(info.dbFieldsSelect) \cup ElementsOf(info.dbFieldsInsert)
                   \cup ElementsOf(info.dbFieldsUpdate) \cup info.dbFieldsSelectMap
                   \cup info.dbFieldsInsertMap \cup info.dbFieldsUpdateMap
        fields == ElementsOf(DeclaredFields)
    IN /\ \A f \in fields : (IsSkip(f) \/ IsLinked(f)) => f.db \notin lists
       /\ \A f \in fields :
            (IsLinked(f) /\ Annotated(f)) =>
              (f.Name \in DOMAIN info.linkedFields /\ info.linkedFields[f.Name] = f.db)
       /\ DOMAIN info.linkedFields = {f.Name : f \in {g \in fields : IsLinked(g) /\ Annotated(g)}}

\* a struct with a field flagged "i,link" and a field flagged "s,i" is in the cache
C17_Witness ==
  /\ "t" \in DOMAIN cache
  /\ Len(DeclaredFields) = 2
  /\ DeclaredFields[1].dbMode = <<"i", ",", "link">>
  /\ DeclaredFields[2].dbMode = <<"s", ",", "i">>
  /\ cache["t"].linkedFields = ("A" :> "a")
  /\ cache["t"].dbFieldsInsert = <<>>

\* the columns of the declared fields that satisfy the test, in declaration order
ColumnsWhere(fields, Test(_)) ==
  LET kept == SelectSeq(fields, Test)
  IN [i \in 1..Len(kept) |-> kept[i].db]

\* C18: the lists of a registered struct are its fields in declaration order,
\* filtered by flag: of the annotated fields that are neither skip nor linked,
\* the insert list holds the columns of those flagged i, the update list of
\* those flagged u, the select list of all of them; the default map has an
\* entry for a column exactly when such a field is flagged i and has a
\* default, and holds that default; a field without a column annotation is
\* in no list and in no map.
C18_ListsKeepDeclarationOrder ==
  \A tableName \in DOMAIN cache :
    LET info == cache[tableName]
        fields == ElementsOf(DeclaredFields)
        IsInsert(f) == Listed(f) /\ Flagged(f, "i")
        IsUpdate(f) == Listed(f) /\ Flagged(f, "u")
        HasDefault(f) == IsInsert(f) /\ f.dbInsertValue # ""
    IN /\ info.dbFieldsSelect = ColumnsWhere(DeclaredFields, Listed)
       /\ info.dbFieldsInsert = ColumnsWhere(DeclaredFields, IsInsert)
       /\ info.dbFieldsUpdate = ColumnsWhere(DeclaredFields, IsUpdate)
       /\ DOMAIN info.dbInsertValueMap = {f.db : f \in {g \in fields : HasDefault(g)}}
       /\ \A f \in fields : HasDefault(f) => info.dbInsertValueMap[f.db] = f.dbInsertValue
       /\ \A f \in fields :
            ~Annotated(f) =>
              /\ f.Name \notin DOMAIN info.dbTagMap \cup DOMAIN info.linkedFields
              /\ f.db \notin ElementsOf(info.dbFieldsSelect) \cup ElementsOf(info.dbFieldsInsert)
                               \cup ElementsOf(info.dbFieldsUpdate) \cup DOMAIN info.dbInsertValueMap

\* two listed fields, the first flagged i with a default, the second flagged u
C18_Witness ==
  /\ "t" \in DOMAIN cache
  /\ Len(DeclaredFields) = 2
  /\ cache["t"].dbFieldsSelect = <<"a", "b">>
  /\ cache["t"].dbFieldsInsert = <<"a">>
  /\ cache["t"].dbFieldsUpdate = <<"b">>
  /\ cache["t"].dbInsertValueMap = ("a" :> "NOW()")

(***************************************************************************)
(* The SELECT statement of a query builder.                                *)
(***************************************************************************)
BuildOk == BuildDone /\ res.out.panic = ""

\* the fragment of a column: under the alias, or under the table
Fragment(table, alias, column) ==
  IF alias # ""
    THEN "\"" \o alias \o "\".\"" \o column \o "\" AS \"" \o alias \o "." \o column \o "\""
  ELSE "\"" \o table \o "\".\"" \o column \o "\""

\* the fragments of the select list of a table
FragmentsOf(table, alias) ==
  [i \in 1..Len(cache[table].dbFieldsSelect) |-> Fragment(table, alias, cache[table].dbFieldsSelect[i])]

\* the fragments of the base table, then those of the joins in the order of
\* the Left calls
RECURSIVE FragmentsOfJoins(_)
FragmentsOfJoins(lefts) ==
  IF lefts = <<>> THEN <<>>
  ELSE FragmentsOf(lefts[1].table, lefts[1].alias) \o FragmentsOfJoins(Tail(lefts))

\* the projection of the statement without its separators
Projection(q) ==
  LET IsFragment(tok) == tok \notin {",", ", "}
  IN SelectSeq(Between(q, "SELECT ", " FROM \""), IsFragment)

\* the text of the statement after FROM "<table>"
AfterFrom(q) == Text(SubSeq(q, IndexOf(q, " FROM \"") + 3, Len(q)))

ClauseWithAlias(left) ==
  "LEFT JOIN \"" \o left.table \o "\" AS \"" \o left.alias \o "\" ON " \o left.on

ClauseOf(left) ==
  IF left.alias = "" THEN "LEFT JOIN \"" \o left.table \o "\" ON " \o left.on
  ELSE ClauseWithAlias(left)

\* the texts with the separator between them
RECURSIVE JoinText(_, _)
JoinText(parts, sep) ==
  IF parts = <<>> THEN ""
  ELSE IF Len(parts) = 1 THEN parts[1]
  ELSE parts[1] \o sep \o JoinText(Tail(parts), sep)

ProjectionInOrder ==
  /\ Projection(res.out.query) = FragmentsOf(inp.qb.Table, "") \o FragmentsOfJoins(inp.lefts)
  /\ res.out.query[IndexOf(res.out.query, " FROM \"") + 1] = inp.qb.Table

\* C19, as claimed: the statement Build gives projects the select list of the
\* base table, then for each join, in the order of the Left calls, the select
\* list of the joined table under the alias of the join; after FROM "<table>"
\* it holds one clause LEFT JOIN "<table>" AS "<alias>" ON <condition> for each
\* join, in the same order, the condition as it was given.
C19_EveryJoinHasAlias ==
  BuildOk =>
    /\ ProjectionInOrder
    /\ AfterFrom(res.out.query)
         = JoinText([i \in 1..Len(inp.lefts) |-> ClauseWithAlias(inp.lefts[i])], " ")

\* C19, amended: as claimed, except that the clause of a join whose alias is
\* empty is LEFT JOIN "<table>" ON <condition>, without AS, and its columns are
\* projected under the name of the joined table.
C19_BuildOrder ==
  BuildOk =>
    /\ ProjectionInOrder
    /\ AfterFrom(res.out.query)
         = JoinText([i \in 1..Len(inp.lefts) |-> ClauseOf(inp.lefts[i])], " ")

\* a statement with two joins of different tables, the first under an alias
C19_Witness ==
  /\ BuildOk
  /\ Len(inp.lefts) = 2
  /\ inp.lefts[1].alias = "r"
  /\ inp.lefts[1].table # inp.lefts[2].table
  /\ inp.qb.Table = inp.lefts[2].table
  /\ cache[inp.lefts[1].table] # cache[inp.lefts[2].table]

(***************************************************************************)
(* The column list renderer.                                               *)
(***************************************************************************)
RenderDone ==
  /\ res.op \in {"getFieldsByMode", "GetSelectFields", "GetInsertFields", "GetUpdateFields"}
  /\ res.out.panic = ""

\* the mode and the alias of the call
ModeOfCall ==
  CASE res.op = "getFieldsByMode" -> inp.mode
    [] res.op = "GetSelectFields" -> "select"
    [] res.op = "GetInsertFields" -> "insert"
    [] res.op = "GetUpdateFields" -> "update"

AliasOfCall ==
  IF res.op \in {"getFieldsByMode", "GetSelectFields"} THEN inp.aliasTableName ELSE ""

\* the list of the table's entry that the mode names
ListOfMode ==
  CASE ModeOfCall = "select" -> cache[inp.tableName].dbFieldsSelect
    [] ModeOfCall = "insert" -> cache[inp.tableName].dbFieldsInsert
    [] ModeOfCall = "update" -> cache[inp.tableName].dbFieldsUpdate

\* the identifiers of the model without their double quotes
WithoutQuotes(s) == IF s = "r\"x" THEN "rx" ELSE s

\* one fragment and one name for each column of the list, in its order
RenderedAs(alias) ==
  /\ res.out.fieldNames = ListOfMode
  /\ res.out.fields = [i \in 1..Len(ListOfMode) |-> Fragment(inp.tableName, alias, ListOfMode[i])]

CompleteInfos == {BuildFrom(NewInfo, Elem(m).fields) : m \in {x \in Models : Elem(x).kind = "struct"}}

\* C21: a lookup that runs while a table is registered finds no entry or
\* the complete entry; the entry comes into the cache in one step, the store,
\* after its lists and maps are built, and no state of the cache holds a
\* partly filled entry.
C21_LookupSeesNoneOrComplete ==
  [][/\ \A tableName \in DOMAIN cache' : cache'[tableName] \in CompleteInfos
     /\ res'.op = "getModelInfo" =>
          /\ res'.ok <=> res'.table \in DOMAIN cache
          /\ res'.ok => (res'.info = cache[res'.table] /\ res'.info \in CompleteInfos)
     /\ cache' # cache =>
          /\ res'.op = "InitModelTagCache" /\ res'.out = "stored"
          /\ \A tableName \in DOMAIN cache' :
               tableName # res'.table => (tableName \in DOMAIN cache
                                          /\ cache'[tableName] = cache[tableName])
          /\ cache'[res'.table] = BuildModelInfo(res'.model)]_vars

\* a lookup found nothing while a caller had built the entry of the table and
\* not yet stored it
C21_Witness ==
  /\ res.op = "getModelInfo"
  /\ ~res.ok
  /\ \E p \in DOMAIN pend : pend[p].table = res.table /\ pend[p].info \in CompleteInfos

\* C22: an InitModelTagCache call for a table that is not in the cache, with a
\* model that is not a struct after the pointers are followed, panics and
\* leaves the cache as it was: the table has no entry, so a lookup of it
\* that comes next finds nothing, and a registration of it with a struct
\* that comes next builds the entry.
C22_NonStructLeavesNoEntry ==
  [][/\ (/\ res'.op = "InitModelTagCache"
         /\ res'.out \in {"already", "panic", "built"}
         /\ res'.table \notin DOMAIN cache
         /\ Elem(res'.model).kind # "struct")
        => (res'.out = "panic" /\ cache' = cache /\ pend' = pend)
     /\ (/\ res.op = "InitModelTagCache" /\ res.out = "panic"
         /\ res'.op = "getModelInfo" /\ res'.table = res.table
         /\ res.table \notin DOMAIN cache)
        => ~res'.ok
     /\ (/\ res.op = "InitModelTagCache" /\ res.out = "panic"
         /\ res'.op = "InitModelTagCache" /\ res'.table = res.table
         /\ res'.out \in {"already", "panic", "built"}
         /\ res.table \notin DOMAIN cache
         /\ Elem(res'.model).kind = "struct")
        => (/\ res'.out = "built"
            /\ pend'[res'.caller].info = BuildModelInfo(res'.model))]_vars

\* a registration with an int panicked for a table that has no entry, while
\* the other table has one
C22_Witness ==
  /\ res.op = "InitModelTagCache"
  /\ res.out = "panic"
  /\ res.model = IntType
  /\ res.table \notin DOMAIN cache
  /\ DOMAIN cache # {}
  /\ \A p \in DOMAIN pend : pend[p].table # res.table

(***************************************************************************)
(* The page count.                                                         *)
(***************************************************************************)

\* the least integer that is not below count / perPage, in integers
CeilOfQuotient(count, perPage) ==
  GoInt(count.hi \div perPage.lo, (count.lo + perPage.lo - 1) \div perPage.lo)

\* C23: the page count of the pagination record is ceil(count / perPage) for
\* every count and every positive page size, whatever the page number.
C23_PageCountIsCeiling ==
  res.op = "Pagination" => res.PageMax = CeilOfQuotient(inp.count, inp.perPage)

(***************************************************************************)
(* The shape of an INSERT statement.                                       *)
(***************************************************************************)

\* the column list of the statement
ColumnsOf(q) ==
  LET list == ListOf(Between(q, "\" (", ") VALUES ("), ",")
  IN [i \in 1..Len(list) |-> Text(list[i])]

\* C24: for a registered table and any value map, the INSERT statement has
\* one column and one VALUES entry for each insertable column, in metadata
\* order; its placeholders are $1..$k from left to right, there are k
\* arguments, the i-th being the value of the column whose entry is $i; and
\* the keys of the value map that are not insertable columns change nothing.
C24_InsertCounts ==
  InsertDone =>
    LET cols == cache[inp.tableName].dbFieldsInsert
        defs == cache[inp.tableName].dbInsertValueMap
        entries == ValuesEntries(res.query)
        IsPlaceholder(entry) == entry \in Placeholders(Len(entries))
        k == Len(res.args)
    IN /\ ColumnsOf(res.query) = cols
       /\ Len(entries) = Len(cols)
       /\ SelectSeq(entries, IsPlaceholder) = [i \in 1..k |-> Ph(i)]
       /\ \A i \in 1..k : \A j \in 1..Len(cols) :
            entries[j] = Ph(i) =>
              res.args[i] = (IF cols[j] \in DOMAIN inp.valuesMap THEN inp.valuesMap[cols[j]]
                             ELSE StrVal(<<defs[cols[j]]>>))
       /\ res = GetInsertQuery(inp.tableName, Restrict(inp.valuesMap, ElementsOf(cols)),
                               inp.returning)

\* two bound arguments, a keyword entry, and a key that is no column
C24_Witness ==
  /\ InsertDone
  /\ "zzz" \in DOMAIN inp.valuesMap
  /\ Cardinality(DOMAIN inp.valuesMap) = 2
  /\ Len(res.args) >= 2
  /\ \E i \in 1..Len(ValuesEntries(res.query)) : ValuesEntries(res.query)[i] \in KeywordLiterals

(***************************************************************************)
(* The outcome of FilterQuery under the other iteration orders.            *)
(***************************************************************************)

\* a condition without the number of its placeholder
Unnumbered(cond) ==
  [i \in 1..Len(cond) |-> IF cond[i] \in Placeholders(MaxEntries + 1) THEN "$" ELSE cond[i]]

\* the conditions of a successful outcome, each with the value its
\* placeholder binds
ComparisonsOf(out) ==
  LET conds == ConditionsOf(out.query)
      NumberOf(cond) == CHOOSE n \in 1..Len(out.args) : \E i \in 1..Len(cond) : cond[i] = Ph(n)
  IN {<<Unnumbered(conds[i]), out.args[NumberOf(conds[i])]>> : i \in 1..Len(conds)}

\* the call of the state, had the two maps been visited in the given orders
UnderOrders(filterOrder, sortOrder) ==
  FilterQuery(inp.baseQuery, inp.t, inp.filters, inp.sort, inp.table,
              inp.perPage, inp.page, filterOrder, sortOrder)

\* C25: for fixed inputs, under every order in which the filter and the sort
\* map can be visited FilterQuery fails if and only if it failed under the
\* orders the call used, and when it succeeds the set of (comparison, bound
\* value) pairs and the set of ORDER BY terms are those of the call.
C25_OutcomeIndependentOfOrder ==
  FilterDone =>
    \A filterOrder \in Orders(inp.filters.m), sortOrder \in Orders(inp.sort.m) :
      LET other == UnderOrders(filterOrder, sortOrder)
      IN /\ (other.err = "") = (res.out.err = "")
         /\ res.out.err = "" =>
              /\ ComparisonsOf(other) = ComparisonsOf(res.out)
              /\ ElementsOf(SortTermsOf(other.query)) = ElementsOf(SortTermsOf(res.out.query))

\* two conditions with different values, and the other order of the filter
\* gives another statement and another argument list
C25_Witness ==
  /\ FilterOk
  /\ Len(res.filterOrder) = 2
  /\ Len(ConditionsOf(res.out.query)) = 2
  /\ \E filterOrder \in Orders(inp.filters.m) :
       /\ UnderOrders(filterOrder, res.sortOrder).query # res.out.query
       /\ UnderOrders(filterOrder, res.sortOrder).args # res.out.args

(***************************************************************************)
(* The count statement and the arguments of the paginated statement.       *)
(***************************************************************************)

\* the conditions of the WHERE clause the count statement ends with
CountConditions ==
  IF IndexOf(Remainder, " WHERE ") = 0 THEN <<>>
  ELSE ListOf(SubSeq(Remainder, IndexOf(Remainder, " WHERE ") + 1, Len(Remainder)), " AND ")

\* C26: the count statement made from a text of FilterQuery holds every
\* condition of the text's WHERE clause, in the same order, and its
\* placeholders are those of the text, $1..$k with k the number of arguments
\* FilterQuery returned: the same argument list binds both statements.
C26_CountKeepsConditions ==
  CountDone =>
    /\ CountConditions = ConditionsOf(res.query)
    /\ PlaceholdersIn(res.countQuery) = PlaceholdersIn(res.query)
    /\ PlaceholdersIn(res.countQuery) = [i \in 1..Len(res.args) |-> Ph(i)]

\* two conditions behind a base query with an ordered, limited subquery, and
\* a sort term behind them
C26_Witness ==
  /\ CountDone
  /\ ~PlainBase
  /\ Len(res.args) = 2
  /\ Len(CountConditions) = 2
  /\ \E i \in (IndexOf(res.query, " WHERE ") + 1)..Len(res.query) : res.query[i] \in reOrderBy
  /\ \E i \in 1..Len(inp.baseQuery) : inp.baseQuery[i] \in reOrderBy

====
